---------------------------- MODULE Spec2Model ----------------------------
(***************************************************************************)
(* A model of the kvs key-value store: the log-structured engine           *)
(* (src/src/engine/kvs.rs), the per-connection server loop                 *)
(* (src/src/server.rs) and the handles that share the engine's mutex.      *)
(*                                                                         *)
(* Files are sequences of bytes.  A byte of the model is one token of the  *)
(* JSON text: the opening of a Set or Remove object, a key, one character  *)
(* of a value, or the closing brace.  Offsets and lengths count tokens.    *)
(***************************************************************************)
EXTENDS Integers, Sequences, FiniteSets, TLC

(***************************************************************************)
(* Bounds of the model.                                                    *)
(***************************************************************************)
NumKeys == 2
MaxValLen == 10
\* kvs.rs:9 sets 1 MiB; the model counts tokens, and keeps the threshold
\* above the length of a short Set record followed by its Remove record and
\* below the length of the longest Set record.
COMPACTION_THRESHOLD == 8
\* How many times the process may stop inside a compaction (SpecCrash).
MaxCrashes == 1
\* Handles of one KvStore used by as many threads, and how many calls they
\* make in all (SpecConc).
NumThreads == 2
MaxCalls == 2
\* Connections a server is handling at once, and how many requests their
\* clients write in all (SpecServer).
NumConns == 2
MaxRequests == 2
\* Workers of a SharedQueueThreadPool and how many jobs are spawned on it
\* (SpecPool).
NumWorkers == 2
MaxJobs == 3
\* records in a log found by open
MaxRecords == 3
\* workers of the server's pool (fewer than connections)
ServerThreads == 1

KeyNames == <<"a", "b", "c", "d">>
AllKeyNames == {KeyNames[i] : i \in DOMAIN KeyNames}
Keys == {KeyNames[i] : i \in 1..NumKeys}
\* A value is a string; the model's strings are "x" and one long string of
\* MaxValLen characters.
Values == {[i \in 1..n |-> "x"] : n \in {1, MaxValLen}}

OPEN_SET == "{S"
OPEN_REMOVE == "{R"
OPEN_GET == "{G"
OPEN_OK == "{Ok"
OPEN_ERR == "{Err"
NULL == "null"
CLOSE == "}"

(***************************************************************************)
(* Options, results and errors.                                            *)
(***************************************************************************)
None == <<>>
Some(x) == <<x>>
IsSome(o) == Len(o) = 1
Unwrap(o) == o[1]

\* A KvsError: its variant, and the string a StringError carries.
KvsError(variant, msg) == [variant |-> variant, msg |-> msg]
NoError == KvsError("", "")
KeyNotFound == KvsError("KeyNotFound", "")
UnexpectedCommandType == KvsError("UnexpectedCommandType", "")
SerdeError == KvsError("Serde", "")
EngineMismatch == KvsError("EngineMismatch", "")
StringError(msg) == KvsError("StringError", msg)

\* KvsError's Display, derived by thiserror from the #[error] attributes.  A
\* StringError displays as the string it carries.
to_string(e) ==
    IF e.variant = "KeyNotFound" THEN "Key not found"
    ELSE IF e.variant = "UnexpectedCommandType" THEN "Unexpected command type"
    ELSE IF e.variant = "Serde" THEN "Serialization error: invalid input"
    ELSE IF e.variant = "EngineMismatch" THEN "Engine mismatch"
    ELSE e.msg

Ok(opt) == [ok |-> TRUE, opt |-> opt, err |-> NoError]
Err(e) == [ok |-> FALSE, opt |-> None, err |-> e]

(***************************************************************************)
(* The Command enum and its JSON encoding.                                 *)
(***************************************************************************)
CmdSet(key, value) == [type |-> "Set", key |-> key, value |-> value]
CmdRemove(key) == [type |-> "Remove", key |-> key, value |-> <<>>]

\* serde_json::to_writer(&mut writer, &cmd)
to_writer(cmd) ==
    IF cmd.type = "Set"
    THEN <<OPEN_SET, cmd.key>> \o cmd.value \o <<CLOSE>>
    ELSE <<OPEN_REMOVE, cmd.key, CLOSE>>

\* The streaming decoder on `bytes`, starting at offset `off` (0-based):
\* one Command and the offset behind it, an error, or end of input.
Decode(bytes, off) ==
    LET n == Len(bytes)
        at(i) == IF off + i <= n THEN bytes[off + i] ELSE "EOF"
        stops == {j \in (off + 3)..n : bytes[j] # "x"}
        stop == CHOOSE j \in stops : \A m \in stops : j <= m
    IN  IF off >= n THEN [kind |-> "eof", cmd |-> CmdRemove(""), next |-> off]
        ELSE IF at(1) = OPEN_REMOVE /\ at(2) \in AllKeyNames /\ at(3) = CLOSE
        THEN [kind |-> "cmd", cmd |-> CmdRemove(at(2)), next |-> off + 3]
        ELSE IF at(1) = OPEN_SET /\ at(2) \in AllKeyNames /\ stops # {}
                /\ bytes[stop] = CLOSE
        THEN [kind |-> "cmd",
              cmd |-> CmdSet(at(2), SubSeq(bytes, off + 3, stop - 1)),
              next |-> stop]
        ELSE [kind |-> "err", cmd |-> CmdRemove(""), next |-> off]

\* serde_json::from_reader(reader): exactly one Command, nothing behind it.
from_reader(bytes) ==
    LET d == Decode(bytes, 0)
    IN  IF d.kind = "cmd" /\ d.next = Len(bytes) THEN Some(d.cmd) ELSE None

(***************************************************************************)
(* Files.                                                                  *)
(***************************************************************************)
\* A file of the data directory: None when it does not exist, else
\* Some(content).
Content(f) == IF IsSome(f) THEN Unwrap(f) ELSE <<>>

\* write(buf) on a file opened without O_APPEND and without O_TRUNC, its
\* cursor at `pos`: the bytes replace what is there and extend the file.
WriteAt(content, pos, buf) ==
    LET before == SubSeq(content, 1, pos)
        after == SubSeq(content, pos + Len(buf) + 1, Len(content))
    IN  before \o buf \o after

\* reader.seek(Start(pos)) and take(len): at most len bytes, up to EOF.
ReadAt(content, pos, len) ==
    SubSeq(content, pos + 1, IF pos + len <= Len(content)
                             THEN pos + len ELSE Len(content))

(***************************************************************************)
(* KvStoreInner: the state behind the mutex, as a record                   *)
(*   wal      content of <path>/wal.log                                    *)
(*   compact  the file <path>/wal.log.compact (None: it does not exist)    *)
(*   index    HashMap<String, CommandPos>: a function on the present keys  *)
(*   stale_bytes, writer (position of the append handle),                  *)
(*   reader (cursor of the read handle)                                    *)
(***************************************************************************)
CommandPos(pos, len) == [pos |-> pos, len |-> len]
EmptyIndex == [k \in {} |-> CommandPos(0, 0)]

\* HashMap::insert and HashMap::remove
Insert(index, key, cp) ==
    [k \in DOMAIN index \cup {key} |-> IF k = key THEN cp ELSE index[k]]
Delete(index, key) == [k \in DOMAIN index \ {key} |-> index[k]]

\* Fault: build_index skips Remove records instead of applying them.
RECURSIVE build_index_skips_remove(_, _, _, _)
build_index_skips_remove(bytes, pos, index, stale) ==
    LET d == Decode(bytes, pos)
        len == d.next - pos
        old == IF d.cmd.key \in DOMAIN index THEN index[d.cmd.key].len ELSE 0
    IN  IF d.kind = "eof"
        THEN [ok |-> TRUE, index |-> index, stale_bytes |-> stale]
        ELSE IF d.kind = "err"
        THEN [ok |-> FALSE, index |-> EmptyIndex, stale_bytes |-> 0]
        ELSE IF d.cmd.type = "Set"
        THEN build_index_skips_remove(bytes, d.next,
                 Insert(index, d.cmd.key, CommandPos(pos, len)), stale + old)
        ELSE build_index_skips_remove(bytes, d.next, index, stale + len)

\* Fault: a Remove whose key is not in the index is not counted as stale.
RECURSIVE build_index_forgets_absent(_, _, _, _)
build_index_forgets_absent(bytes, pos, index, stale) ==
    LET d == Decode(bytes, pos)
        len == d.next - pos
        present == d.cmd.key \in DOMAIN index
        old == IF present THEN index[d.cmd.key].len ELSE 0
    IN  IF d.kind = "eof"
        THEN [ok |-> TRUE, index |-> index, stale_bytes |-> stale]
        ELSE IF d.kind = "err"
        THEN [ok |-> FALSE, index |-> EmptyIndex, stale_bytes |-> 0]
        ELSE IF d.cmd.type = "Set"
        THEN build_index_forgets_absent(bytes, d.next,
                 Insert(index, d.cmd.key, CommandPos(pos, len)), stale + old)
        ELSE build_index_forgets_absent(bytes, d.next,
                 Delete(index, d.cmd.key),
                 IF present THEN stale + old + len ELSE stale)

\* The while-let loop of build_index, from offset `pos` on.
RECURSIVE build_index_from(_, _, _, _)
build_index_from(bytes, pos, index, stale) ==
    LET d == Decode(bytes, pos)
        len == d.next - pos
        old == IF d.cmd.key \in DOMAIN index THEN index[d.cmd.key].len ELSE 0
    IN  IF d.kind = "eof"
        THEN [ok |-> TRUE, index |-> index, stale_bytes |-> stale]
        ELSE IF d.kind = "err"
        THEN [ok |-> FALSE, index |-> EmptyIndex, stale_bytes |-> 0]
        ELSE IF d.cmd.type = "Set"
        THEN build_index_from(bytes, d.next,
                 Insert(index, d.cmd.key, CommandPos(pos, len)), stale + old)
        ELSE build_index_from(bytes, d.next,
                 Delete(index, d.cmd.key), stale + old + len)

build_index(bytes) == build_index_from(bytes, 0, EmptyIndex, 0)

\* The order in which HashMap::keys() yields the keys is not specified: a
\* compaction may take the keys of the index in any order.
Orders(index) ==
    LET n == Cardinality(DOMAIN index)
    IN  {o \in [1..n -> DOMAIN index] : \A i, j \in 1..n : o[i] = o[j] => i = j}
\* The orders a call has to consider: all of them when it compacts, and any
\* one of them (no key is iterated) when it does not.
OrdersIf(compacting, index) ==
    IF compacting THEN Orders(index) ELSE {<<>>}

\* Fault: the new index keeps the offsets of the old log.
RECURSIVE copy_live_old_pos(_, _, _, _, _, _, _)
copy_live_old_pos(order, i, wal, index, file, cpos, new_index) ==
    IF i > Len(order)
    THEN [file |-> file, new_index |-> new_index]
    ELSE IF order[i] \notin DOMAIN index
    THEN copy_live_old_pos(order, i + 1, wal, index, file, cpos, new_index)
    ELSE LET cmd_pos == index[order[i]]
             buf == ReadAt(wal, cmd_pos.pos, cmd_pos.len)
             new_pos == cpos + Len(buf)
         IN  copy_live_old_pos(order, i + 1, wal, index, WriteAt(file, cpos, buf),
                 new_pos, Insert(new_index, order[i],
                                 CommandPos(cmd_pos.pos, new_pos - cpos)))

\* The for loop of compact over order[i..]: `file` is the content of
\* wal.log.compact so far, `cpos` the position of compaction_writer.
RECURSIVE copy_live(_, _, _, _, _, _, _)
copy_live(order, i, wal, index, file, cpos, new_index) ==
    IF i > Len(order)
    THEN [file |-> file, new_index |-> new_index]
    ELSE IF order[i] \notin DOMAIN index
    THEN copy_live(order, i + 1, wal, index, file, cpos, new_index)
    ELSE LET cmd_pos == index[order[i]]
             buf == ReadAt(wal, cmd_pos.pos, cmd_pos.len)
             new_pos == cpos + Len(buf)
         IN  copy_live(order, i + 1, wal, index, WriteAt(file, cpos, buf),
                 new_pos, Insert(new_index, order[i], CommandPos(cpos, new_pos - cpos)))

\* compact, steps 1 to 3: wal.log.compact is opened with create and write
\* (what it held stays), the live records are copied into it, and it is
\* flushed.  Yields the file and the new index.
compact_copy(st, order) ==
    copy_live(order, 1, st.wal, st.index, Content(st.compact), 0, EmptyIndex)

\* compact, step 3 and the first half of step 4: wal.log.compact is renamed
\* over wal.log, the writer is reopened and put at its end, the reader is
\* reopened.
compact_rename(st) ==
    [st EXCEPT !.wal = Content(st.compact),
               !.compact = None,
               !.writer = Len(Content(st.compact)),
               !.reader = 0]

\* Fault: the index of the old log is kept.
compact_replace_keeps_index(st, new_index) ==
    [st EXCEPT !.stale_bytes = 0]

\* compact, the rest of step 4
compact_replace(st, new_index) ==
    [st EXCEPT !.index = new_index, !.stale_bytes = 0]

\* KvStoreInner::compact
compact(st, order) ==
    LET c == compact_copy(st, order)
    IN  compact_replace(compact_rename([st EXCEPT !.compact = Some(c.file)]),
                        c.new_index)

\* Fault: the counter is compared with twice the threshold.
compact_on_double_threshold(st, order) ==
    IF st.stale_bytes > 2 * COMPACTION_THRESHOLD THEN compact(st, order) ELSE st

compact_on_threshold(st, order) ==
    IF st.stale_bytes > COMPACTION_THRESHOLD THEN compact(st, order) ELSE st

\* The files a compaction leaves when the process stops inside it: after
\* `copied` keys of `order` were copied and flushed (0: wal.log.compact was
\* only created), and before or after the rename.
compact_stopped(st, order, copied, renamed) ==
    LET c == compact_copy(st, SubSeq(order, 1, copied))
    IN  [wal |-> IF renamed THEN c.file ELSE st.wal,
         compact |-> IF renamed THEN None ELSE Some(c.file)]

\* Fault: or_insert instead of insert, an existing entry is kept.
set_append_keeps_entry(st, key, value) ==
    LET pos == st.writer
        buf == to_writer(CmdSet(key, value))
        new_pos == pos + Len(buf)
        len == new_pos - pos
    IN  [st EXCEPT !.wal = WriteAt(st.wal, pos, buf),
                   !.writer = new_pos,
                   !.index = IF key \in DOMAIN st.index THEN st.index
                             ELSE Insert(st.index, key, CommandPos(pos, len)),
                   !.stale_bytes = st.stale_bytes
                       + (IF key \in DOMAIN st.index THEN len ELSE 0)]

\* Fault: the command stays in the BufWriter; the position counts it, the
\* file does not have it.
write_cmd_unflushed(st, cmd) ==
    LET buf == to_writer(cmd)
    IN  [st EXCEPT !.writer = st.writer + Len(buf)]

\* The command is serialized through the writer and flushed.
write_cmd(st, cmd) ==
    LET buf == to_writer(cmd)
    IN  [st EXCEPT !.wal = WriteAt(st.wal, st.writer, buf),
                   !.writer = st.writer + Len(buf)]

\* set: the index entry is installed, a replaced one counts as stale.
index_insert(st, key, pos, len) ==
    LET old == IF key \in DOMAIN st.index THEN st.index[key].len ELSE 0
    IN  [st EXCEPT !.index = Insert(st.index, key, CommandPos(pos, len)),
                   !.stale_bytes = st.stale_bytes + old]

\* remove: the index entry is dropped; it and the Remove record are stale.
index_remove(st, key, len) ==
    IF key \in DOMAIN st.index
    THEN [st EXCEPT !.index = Delete(st.index, key),
                    !.stale_bytes = st.stale_bytes + st.index[key].len + len]
    ELSE st

\* KvStoreInner::set, up to the compaction check
set_append(st, key, value) ==
    LET pos == st.writer
        written == write_cmd(st, CmdSet(key, value))
        new_pos == written.writer
        len == new_pos - pos
    IN  index_insert(written, key, pos, len)

\* KvStoreInner::set
set(st, key, value, order) == compact_on_threshold(set_append(st, key, value), order)

\* KvStoreInner::get: the result and the state it leaves
get_result(st, key) ==
    IF key \in DOMAIN st.index
    THEN LET cmd_pos == st.index[key]
             cmd == from_reader(ReadAt(st.wal, cmd_pos.pos, cmd_pos.len))
         IN  IF ~IsSome(cmd) THEN Err(SerdeError)
             ELSE IF Unwrap(cmd).type = "Set" THEN Ok(Some(Unwrap(cmd).value))
             ELSE Err(UnexpectedCommandType)
    ELSE Ok(None)

\* Fault: the seek of the read handle moves the append handle as well.
get_seeks_writer(st, key) ==
    IF key \in DOMAIN st.index
    THEN LET cmd_pos == st.index[key]
             end == cmd_pos.pos + Len(ReadAt(st.wal, cmd_pos.pos, cmd_pos.len))
         IN  [st EXCEPT !.reader = end, !.writer = end]
    ELSE st

get(st, key) ==
    IF key \in DOMAIN st.index
    THEN LET cmd_pos == st.index[key]
         IN  [st EXCEPT !.reader =
                 cmd_pos.pos + Len(ReadAt(st.wal, cmd_pos.pos, cmd_pos.len))]
    ELSE st

\* KvStoreInner::remove
remove_result(st, key) ==
    IF key \in DOMAIN st.index THEN Ok(None) ELSE Err(KeyNotFound)

\* Fault: the Remove record is written, the index entry stays.
remove_append_keeps_entry(st, key) ==
    LET pos == st.writer
        buf == to_writer(CmdRemove(key))
        new_pos == pos + Len(buf)
        len == new_pos - pos
    IN  [st EXCEPT !.wal = WriteAt(st.wal, pos, buf),
                   !.writer = new_pos,
                   !.stale_bytes = st.stale_bytes + len]

\* KvStoreInner::remove of a present key, up to the compaction check
remove_append(st, key) ==
    LET pos == st.writer
        written == write_cmd(st, CmdRemove(key))
        new_pos == written.writer
        len == new_pos - pos
    IN  index_remove(written, key, len)

\* Fault: the Remove record is written before the index is consulted.
remove_writes_first(st, key, order) ==
    LET pos == st.writer
        buf == to_writer(CmdRemove(key))
        new_pos == pos + Len(buf)
        written == [st EXCEPT !.wal = WriteAt(st.wal, pos, buf),
                              !.writer = new_pos]
    IN  IF key \in DOMAIN st.index
        THEN compact_on_threshold(
                 [written EXCEPT !.index = Delete(st.index, key),
                                 !.stale_bytes = st.stale_bytes + st.index[key].len
                                                 + (new_pos - pos)], order)
        ELSE written

remove(st, key, order) ==
    IF key \in DOMAIN st.index
    THEN compact_on_threshold(remove_append(st, key), order)
    ELSE st

\* KvStore::open on a directory whose files are wal_file and compact_file
open_result(wal_file) == build_index(Content(wal_file)).ok

open(wal_file, compact_file) ==
    LET bytes == Content(wal_file)
        b == build_index(bytes)
    IN  [wal |-> bytes,
         compact |-> compact_file,
         index |-> b.index,
         stale_bytes |-> b.stale_bytes,
         writer |-> Len(bytes),
         reader |-> Len(bytes)]

(***************************************************************************)
(* State.                                                                  *)
(***************************************************************************)
VARIABLES
    wal_log,          \* the file <path>/wal.log: None or Some(bytes)
    wal_log_compact,  \* the file <path>/wal.log.compact
    opened,           \* a KvStore (some handle of it) exists
    index,            \* KvStoreInner.index
    stale_bytes,      \* KvStoreInner.stale_bytes
    writer,           \* position of KvStoreInner.writer
    reader,           \* cursor of KvStoreInner.reader
    lastOp,           \* the last call made and what it returned
    lastMut,          \* per key, the last successful set or remove
    onlySets,         \* every successful mutation so far was a set of a value
                      \* other than the one the key held
    snapshot,         \* what the store held before the compaction or the drop
                      \* of the last call (None when it did neither)
    crashes,          \* how often the process has stopped inside a compaction
    mutex,            \* the Mutex around KvStoreInner: 0, or the thread holding it
    pc,               \* per thread, where it is in its call
    call,             \* per thread, the call it is making
    loc,              \* per thread, the local variables of the call
    ret,              \* per thread, the last call that returned and its result
    abs,              \* the map the calls define, taken in the order of locking
    serial,           \* the KvStoreInner the calls give when run one by one
    ncalls,           \* calls made so far
    to_server,        \* per connection, the bytes the client has written
    shut,             \* per connection, the client has closed its side
    req_pos,          \* per connection, how far req_stream has consumed
    handler,          \* per connection, where handle_client is
    req,              \* per connection, the request decoded last
    resp,             \* per connection, the response built last
    to_client,        \* per connection, the bytes flushed to the client
    sent,             \* per connection, what the client wrote, in order
    served,           \* per connection, the engine calls made and their results
    pipelined,        \* per connection, the client wrote a request while an
                      \* earlier one of its requests had no response yet
    nsent,            \* requests written so far, over all connections
    results,          \* per connection, what the calls of its KvsClient returned
    resp_pos,         \* per connection, how far the KvsClient's reader has consumed
    queue,            \* the channel of the pool: the messages sent and not received
    worker,           \* per worker thread, where it is in its loop
    job,              \* per worker thread, the job it received and has not run
    pool,             \* where the owner of the SharedQueueThreadPool is with it
    drop_i,           \* how far the current loop of drop has come
    spawned,          \* jobs spawned so far
    executed,         \* the jobs that ran, each with the worker that ran it
    taken,            \* per worker thread, the Terminate messages it received
    engine_file,      \* the file <path>/.engine: None or Some(bytes)
    sled_db,          \* sled has created its files in the directory
    server            \* the kvs-server process: its state and how it was started

engineVars == <<wal_log, wal_log_compact, opened, index, stale_bytes, writer, reader>>
histVars == <<lastOp, lastMut, onlySets, snapshot>>
concVars == <<mutex, pc, call, loc, ret, abs, serial, ncalls>>
serverVars == <<to_server, shut, req_pos, handler, req, resp, to_client,
                sent, served, pipelined, nsent>>
clientVars == <<results, resp_pos>>
poolVars == <<queue, worker, job, pool, drop_i, spawned, executed, taken>>
bootVars == <<engine_file, sled_db, server>>
vars == <<engineVars, histVars, crashes, concVars, serverVars, clientVars, poolVars,
          bootVars>>

\* What the calls made through a single handle leave alone.
NoCrash == UNCHANGED <<crashes, concVars, serverVars, clientVars, poolVars, bootVars>>

\* The KvStoreInner of the open store, with the files it works on.
Inner ==
    [wal |-> Content(wal_log), compact |-> wal_log_compact, index |-> index,
     stale_bytes |-> stale_bytes, writer |-> writer, reader |-> reader]

Install(st) ==
    /\ wal_log' = Some(st.wal)
    /\ wal_log_compact' = st.compact
    /\ index' = st.index
    /\ stale_bytes' = st.stale_bytes
    /\ writer' = st.writer
    /\ reader' = st.reader

\* What get returns for every key in state st.
AllGets(st) == [k \in Keys |-> get_result(st, k)]

\* The bytes of wal.log that the index entries of st name, per present key.
Records(st) ==
    [k \in DOMAIN st.index |-> ReadAt(st.wal, st.index[k].pos, st.index[k].len)]

Snapshot(st) == [gets |-> AllGets(st), records |-> Records(st)]

Call(op, key, result, compacted) ==
    [op |-> op, key |-> key, result |-> result, compacted |-> compacted]

NoMut == [kind |-> "none", value |-> <<>>]

Threads == 1..NumThreads
NoCall == [op |-> "none", key |-> "", value |-> <<>>]
NoLocals ==
    [pos |-> 0, len |-> 0, cmd_pos |-> CommandPos(0, 0), new_index |-> EmptyIndex,
     result |-> Ok(None), expect |-> Ok(None), contended |-> FALSE]
NoReturn ==
    [call |-> NoCall, result |-> Ok(None), expect |-> Ok(None), contended |-> FALSE]
\* The KvStoreInner that open builds on a new directory.
NewInner == open(None, None)

\* No call has been made.
InitHistory ==
    /\ lastOp = Call("init", "", Ok(None), FALSE)
    /\ lastMut = [k \in Keys |-> NoMut]
    /\ onlySets = TRUE
    /\ snapshot = None
    /\ crashes = 0

\* The requests of protocol.rs, and the connections a server has accepted.
Connections == 1..NumConns
NoRequest == [op |-> "", key |-> "", value |-> <<>>]
NoResponse == [tag |-> "", opt |-> None, msg |-> ""]

\* Every connection is established and waits in listener.incoming(), nothing
\* written yet in either direction.
InitConnections ==
    /\ to_server = [c \in Connections |-> <<>>]
    /\ shut = [c \in Connections |-> FALSE]
    /\ req_pos = [c \in Connections |-> 0]
    /\ handler = [c \in Connections |-> "pending"]
    /\ req = [c \in Connections |-> NoRequest]
    /\ resp = [c \in Connections |-> NoResponse]
    /\ to_client = [c \in Connections |-> <<>>]
    /\ sent = [c \in Connections |-> <<>>]
    /\ served = [c \in Connections |-> <<>>]
    /\ pipelined = [c \in Connections |-> FALSE]
    /\ results = [c \in Connections |-> <<>>]
    /\ resp_pos = [c \in Connections |-> 0]
    /\ nsent = 0

\* The messages of the pool's channel (shared_queue.rs:11-14).  A job is
\* known by the number of its spawn and by whether it panics when run.
Workers == 1..NumWorkers
NewJob(id, panics) == [kind |-> "NewJob", id |-> id, panics |-> panics]
Terminate == [kind |-> "Terminate", id |-> 0, panics |-> FALSE]
NoJob == NewJob(0, FALSE)

\* SharedQueueThreadPool::new(NumWorkers) has returned: an empty channel and
\* every worker thread at receiver.recv().
NewPool ==
    /\ queue = <<>>
    /\ worker = [w \in Workers |-> "recv"]
    /\ job = [w \in Workers |-> NoJob]
    /\ pool = "alive"
    /\ drop_i = 0
    /\ spawned = 0
    /\ executed = {}
    /\ taken = [w \in Workers |-> 0]

\* The Engine enum (engine/mod.rs:31-35) and its JSON in the .engine file.
Kvs == "Kvs"
Sled == "Sled"
Engines == {Kvs, Sled}
engine_to_writer(engine) == <<engine>>
engine_from_reader(bytes) ==
    IF Len(bytes) = 1 /\ bytes[1] \in Engines THEN Ok(Some(bytes[1])) ELSE Err(SerdeError)

\* The kvs-server process: not running, or running since a start with
\* argument `arg` found the .engine file `marker`; `chosen` is what
\* get_engine returned, `engine` the engine main opened (None: it opened
\* none), `listening` whether the listener is bound.
ServerProcess(state, arg, marker, chosen, engine, listening) ==
    [state |-> state, arg |-> arg, marker |-> marker, chosen |-> chosen,
     engine |-> engine, listening |-> listening]

\* No kvs-server was ever started in the directory.
NoServer ==
    /\ engine_file = None
    /\ sled_db = FALSE
    /\ server = ServerProcess("stopped", None, None, Ok(None), None, FALSE)

\* kvs-server was started with the kvs engine in a directory without .engine.
ServerStarted ==
    /\ engine_file = Some(engine_to_writer(Kvs))
    /\ sled_db = FALSE
    /\ server = ServerProcess("running", None, None, Ok(Some(Kvs)), Some(Kvs), TRUE)

\* No thread is in a call.
InitThreads ==
    /\ mutex = 0
    /\ pc = [t \in Threads |-> "idle"]
    /\ call = [t \in Threads |-> NoCall]
    /\ loc = [t \in Threads |-> NoLocals]
    /\ ret = [t \in Threads |-> NoReturn]
    /\ abs = [k \in Keys |-> None]
    /\ serial = NewInner
    /\ ncalls = 0

\* A new directory, nothing opened.
Init ==
    /\ wal_log = None
    /\ wal_log_compact = None
    /\ opened = FALSE
    /\ index = EmptyIndex
    /\ stale_bytes = 0
    /\ writer = 0
    /\ reader = 0
    /\ InitHistory
    /\ InitThreads
    /\ InitConnections
    /\ NewPool
    /\ NoServer

(***************************************************************************)
(* Operations of one handle, called one after the other.                   *)
(***************************************************************************)
\* KvStore::open(path)
OpenStore ==
    /\ ~opened
    /\ IF open_result(wal_log)
       THEN /\ opened' = TRUE
            /\ Install(open(wal_log, wal_log_compact))
            /\ lastOp' = Call("open", "", Ok(None), FALSE)
       ELSE \* the file was created before build_index failed
            /\ wal_log' = Some(Content(wal_log))
            /\ lastOp' = Call("open", "", Err(SerdeError), FALSE)
            /\ UNCHANGED <<wal_log_compact, opened, index, stale_bytes, writer, reader>>
    /\ UNCHANGED <<lastMut, onlySets, snapshot>>
    /\ NoCrash

\* KvStore::set(key, value)
CallSet(key, value) ==
    /\ opened
    /\ LET st1 == set_append(Inner, key, value)
           compacting == st1.stale_bytes > COMPACTION_THRESHOLD
       IN  \E order \in OrdersIf(compacting, st1.index) :
             /\ Install(set(Inner, key, value, order))
             /\ lastOp' = Call("set", key, Ok(None), compacting)
             /\ snapshot' = IF compacting THEN Some(Snapshot(st1)) ELSE None
    /\ lastMut' = [lastMut EXCEPT ![key] = [kind |-> "set", value |-> value]]
    /\ onlySets' = (onlySets /\ get_result(Inner, key) # Ok(Some(value)))
    /\ UNCHANGED opened
    /\ NoCrash

\* KvStore::get(key)
CallGet(key) ==
    /\ opened
    /\ Install(get(Inner, key))
    /\ lastOp' = Call("get", key, get_result(Inner, key), FALSE)
    /\ snapshot' = None
    /\ UNCHANGED <<opened, lastMut, onlySets>>
    /\ NoCrash

\* KvStore::remove(key)
CallRemove(key) ==
    /\ opened
    /\ LET res == remove_result(Inner, key)
           st1 == IF res.ok THEN remove_append(Inner, key) ELSE Inner
           compacting == res.ok /\ st1.stale_bytes > COMPACTION_THRESHOLD
       IN  \E order \in OrdersIf(compacting, st1.index) :
             /\ Install(remove(Inner, key, order))
             /\ lastOp' = Call("remove", key, res, compacting)
             /\ snapshot' = IF compacting THEN Some(Snapshot(st1)) ELSE None
             /\ lastMut' = IF res.ok
                           THEN [lastMut EXCEPT ![key] = [kind |-> "remove", value |-> <<>>]]
                           ELSE lastMut
             /\ onlySets' = (onlySets /\ ~res.ok)
    /\ UNCHANGED opened
    /\ NoCrash

\* The last handle is dropped: the KvStoreInner is gone, the files stay.
DropStore ==
    /\ opened
    /\ opened' = FALSE
    /\ index' = EmptyIndex
    /\ stale_bytes' = 0
    /\ writer' = 0
    /\ reader' = 0
    /\ lastOp' = Call("drop", "", Ok(None), FALSE)
    /\ snapshot' = Some(Snapshot(Inner))
    /\ UNCHANGED <<wal_log, wal_log_compact, lastMut, onlySets>>
    /\ NoCrash

Next ==
    \/ OpenStore
    \/ \E key \in Keys, value \in Values : CallSet(key, value)
    \/ \E key \in Keys : CallGet(key)
    \/ \E key \in Keys : CallRemove(key)
    \/ DropStore

Spec == Init /\ [][Next]_vars

(***************************************************************************)
(* The process stops inside a compaction.                                  *)
(***************************************************************************)
\* The call has brought the store to st1 (its record is written and flushed,
\* stale_bytes is over the threshold) and the process stops inside
\* compact: the files stay as compact left them, the KvStoreInner is gone.
StopInCompact(st1) ==
    /\ st1.stale_bytes > COMPACTION_THRESHOLD
    /\ \E order \in Orders(st1.index), copied \in 0..NumKeys, renamed \in BOOLEAN :
         /\ copied <= Len(order)
         /\ renamed => copied = Len(order)
         /\ LET files == compact_stopped(st1, order, copied, renamed)
            IN  /\ wal_log' = Some(files.wal)
                /\ wal_log_compact' = files.compact
    /\ opened' = FALSE
    /\ index' = EmptyIndex
    /\ stale_bytes' = 0
    /\ writer' = 0
    /\ reader' = 0
    /\ snapshot' = Some(Snapshot(st1))
    /\ crashes' = crashes + 1
    /\ UNCHANGED <<concVars, serverVars, clientVars, poolVars, bootVars>>

CrashInSet(key, value) ==
    /\ opened
    /\ crashes < MaxCrashes
    /\ StopInCompact(set_append(Inner, key, value))
    /\ lastOp' = Call("crash", key, Ok(None), TRUE)
    /\ lastMut' = [lastMut EXCEPT ![key] = [kind |-> "set", value |-> value]]
    /\ onlySets' = (onlySets /\ get_result(Inner, key) # Ok(Some(value)))

CrashInRemove(key) ==
    /\ opened
    /\ crashes < MaxCrashes
    /\ key \in DOMAIN index
    /\ StopInCompact(remove_append(Inner, key))
    /\ lastOp' = Call("crash", key, Ok(None), TRUE)
    /\ lastMut' = [lastMut EXCEPT ![key] = [kind |-> "remove", value |-> <<>>]]
    /\ onlySets' = FALSE

NextCrash ==
    \/ Next
    \/ \E key \in Keys, value \in Values : CrashInSet(key, value)
    \/ \E key \in Keys : CrashInRemove(key)

SpecCrash == Init /\ [][NextCrash]_vars

(***************************************************************************)
(* Cloned handles: each thread calls set, get and remove on its clone of   *)
(* one KvStore.  A call locks the mutex, runs the KvStoreInner method and  *)
(* unlocks when it returns.  The methods run statement by statement.       *)
(***************************************************************************)
\* The logs the directory starts with: none, or the log that an earlier
\* run left by setting the first key to "x" and then to the long value.
LongValue == [i \in 1..MaxValLen |-> "x"]
EarlierLogs ==
    {<<>>,
     to_writer(CmdSet(KeyNames[1], <<"x">>)) \o to_writer(CmdSet(KeyNames[1], LongValue))}

\* KvStore::open has run on the directory and the handle was cloned.
InitConc ==
    /\ \E log \in EarlierLogs :
         LET st == open(Some(log), None)
         IN  /\ wal_log = Some(st.wal)
             /\ index = st.index
             /\ stale_bytes = st.stale_bytes
             /\ writer = st.writer
             /\ reader = st.reader
             /\ serial = st
             /\ abs = [k \in Keys |-> get_result(st, k).opt]
    /\ wal_log_compact = None
    /\ opened = TRUE
    /\ InitHistory
    /\ mutex = 0
    /\ pc = [t \in Threads |-> "idle"]
    /\ call = [t \in Threads |-> NoCall]
    /\ loc = [t \in Threads |-> NoLocals]
    /\ ret = [t \in Threads |-> NoReturn]
    /\ ncalls = 0
    /\ InitConnections
    /\ NewPool
    /\ NoServer

Calls ==
    {[op |-> "set", key |-> k, value |-> v] : k \in Keys, v \in Values}
    \cup {[op |-> o, key |-> k, value |-> <<>>] : o \in {"get", "remove"}, k \in Keys}

ThreadFrame ==
    UNCHANGED <<opened, histVars, crashes, serverVars, clientVars, poolVars, bootVars>>

\* Thread t calls store.set / get / remove on its handle.
Invoke(t, c) ==
    /\ pc[t] = "idle"
    /\ ncalls < MaxCalls
    /\ ncalls' = ncalls + 1
    /\ call' = [call EXCEPT ![t] = c]
    /\ pc' = [pc EXCEPT ![t] = "lock"]
    /\ UNCHANGED <<engineVars, mutex, loc, ret, abs, serial>>
    /\ ThreadFrame

\* What the call c returns on the map m, and the map it leaves.
AbsResult(m, c) ==
    IF c.op = "get" THEN Ok(m[c.key])
    ELSE IF c.op = "remove" /\ m[c.key] = None THEN Err(KeyNotFound)
    ELSE Ok(None)
AbsApply(m, c) ==
    IF c.op = "set" THEN [m EXCEPT ![c.key] = Some(c.value)]
    ELSE IF c.op = "remove" THEN [m EXCEPT ![c.key] = None]
    ELSE m

FirstStep(c) ==
    IF c.op = "set" THEN "write" ELSE IF c.op = "get" THEN "lookup" ELSE "check"

\* Fault: lock() returns although another thread holds the mutex.
LockNoWait(t) ==
    /\ pc[t] = "lock"
    /\ mutex' = t
    /\ abs' = AbsApply(abs, call[t])
    /\ loc' = [loc EXCEPT ![t] = [NoLocals EXCEPT
                   !.expect = AbsResult(abs, call[t]),
                   !.contended = \E u \in Threads \ {t} : pc[u] # "idle"]]
    /\ pc' = [pc EXCEPT ![t] = FirstStep(call[t])]
    /\ UNCHANGED <<engineVars, call, ret, serial, ncalls>>
    /\ ThreadFrame

\* self.0.lock().unwrap(): t waits until the mutex is free and takes it.
\* The call takes its place in the serial order here.
Lock(t) ==
    /\ pc[t] = "lock"
    /\ mutex = 0
    /\ mutex' = t
    /\ abs' = AbsApply(abs, call[t])
    /\ loc' = [loc EXCEPT ![t] = [NoLocals EXCEPT
                   !.expect = AbsResult(abs, call[t]),
                   !.contended = \E u \in Threads \ {t} : pc[u] # "idle"]]
    /\ pc' = [pc EXCEPT ![t] = FirstStep(call[t])]
    /\ UNCHANGED <<engineVars, call, ret, serial, ncalls>>
    /\ ThreadFrame

\* A step of the method: the KvStoreInner becomes st, t goes to `next`
\* with locals l.
MethodStep(t, st, next, l) ==
    /\ Install(st)
    /\ pc' = [pc EXCEPT ![t] = next]
    /\ loc' = [loc EXCEPT ![t] = l]
    /\ UNCHANGED <<mutex, call, ret, abs, serial, ncalls>>
    /\ ThreadFrame

AfterWrite(st) ==
    IF st.stale_bytes > COMPACTION_THRESHOLD THEN "copy" ELSE "unlock"

\* set, kvs.rs:82-91: the Set record is written and flushed.
SetWrite(t) ==
    /\ pc[t] = "write"
    /\ LET st == write_cmd(Inner, CmdSet(call[t].key, call[t].value))
       IN  MethodStep(t, st, "insert",
               [loc[t] EXCEPT !.pos = writer, !.len = st.writer - writer])

\* set, kvs.rs:93-97: the index entry is installed, the threshold checked.
SetInsert(t) ==
    /\ pc[t] = "insert"
    /\ LET st == index_insert(Inner, call[t].key, loc[t].pos, loc[t].len)
       IN  MethodStep(t, st, AfterWrite(st), [loc[t] EXCEPT !.result = Ok(None)])

\* remove, kvs.rs:128-135: KeyNotFound, or the Remove record is written.
RemoveCheck(t) ==
    /\ pc[t] = "check"
    /\ IF call[t].key \in DOMAIN index
       THEN LET st == write_cmd(Inner, CmdRemove(call[t].key))
            IN  MethodStep(t, st, "delete",
                    [loc[t] EXCEPT !.pos = writer, !.len = st.writer - writer])
       ELSE MethodStep(t, Inner, "unlock", [loc[t] EXCEPT !.result = Err(KeyNotFound)])

\* remove, kvs.rs:137-142: the index entry is dropped, the threshold checked.
RemoveDelete(t) ==
    /\ pc[t] = "delete"
    /\ LET st == index_remove(Inner, call[t].key, loc[t].len)
       IN  MethodStep(t, st, AfterWrite(st), [loc[t] EXCEPT !.result = Ok(None)])

\* Fault: the MutexGuard is dropped before compact is called.
CompactCopyUnlocked(t) ==
    /\ pc[t] = "copy"
    /\ \E order \in Orders(index) :
         LET c == compact_copy(Inner, order)
         IN  /\ Install([Inner EXCEPT !.compact = Some(c.file)])
             /\ loc' = [loc EXCEPT ![t] = [loc[t] EXCEPT !.new_index = c.new_index]]
    /\ pc' = [pc EXCEPT ![t] = "rename"]
    /\ mutex' = 0
    /\ UNCHANGED <<call, ret, abs, serial, ncalls>>
    /\ ThreadFrame

\* compact, kvs.rs:154-174: the live records are copied to wal.log.compact.
CompactCopy(t) ==
    /\ pc[t] = "copy"
    /\ \E order \in Orders(index) :
         LET c == compact_copy(Inner, order)
         IN  MethodStep(t, [Inner EXCEPT !.compact = Some(c.file)], "rename",
                 [loc[t] EXCEPT !.new_index = c.new_index])

\* compact, kvs.rs:177-186: rename, writer and reader reopened.
CompactRename(t) ==
    /\ pc[t] = "rename"
    /\ MethodStep(t, compact_rename(Inner), "replace", loc[t])

\* compact, kvs.rs:187-190: index and stale_bytes replaced.
CompactReplace(t) ==
    /\ pc[t] = "replace"
    /\ MethodStep(t, compact_replace(Inner, loc[t].new_index), "unlock",
           [loc[t] EXCEPT !.new_index = EmptyIndex])

\* get, kvs.rs:109: the index is consulted.
GetLookup(t) ==
    /\ pc[t] = "lookup"
    /\ IF call[t].key \in DOMAIN index
       THEN MethodStep(t, Inner, "read", [loc[t] EXCEPT !.cmd_pos = index[call[t].key]])
       ELSE MethodStep(t, Inner, "unlock", [loc[t] EXCEPT !.result = Ok(None)])

\* What get makes of the len bytes at pos.
read_cmd(st, cmd_pos) ==
    LET cmd == from_reader(ReadAt(st.wal, cmd_pos.pos, cmd_pos.len))
    IN  IF ~IsSome(cmd) THEN Err(SerdeError)
        ELSE IF Unwrap(cmd).type = "Set" THEN Ok(Some(Unwrap(cmd).value))
        ELSE Err(UnexpectedCommandType)

\* get, kvs.rs:110-118: seek, read and decode.
GetRead(t) ==
    /\ pc[t] = "read"
    /\ LET cp == loc[t].cmd_pos
           st == [Inner EXCEPT !.reader = cp.pos + Len(ReadAt(Inner.wal, cp.pos, cp.len))]
       IN  MethodStep(t, st, "unlock",
               [loc[t] EXCEPT !.result = read_cmd(Inner, cp),
                              !.cmd_pos = CommandPos(0, 0)])

\* The call c run in one piece on the KvStoreInner st.  new_index is the
\* index the call has left: if the call compacted, its offsets tell the
\* order in which the keys were copied, and the run takes the same order.
RunSerially(st, c, new_index) ==
    LET order == [i \in 1..Cardinality(DOMAIN new_index) |->
                     CHOOSE k \in DOMAIN new_index :
                         Cardinality({k2 \in DOMAIN new_index :
                             new_index[k2].pos < new_index[k].pos}) = i - 1]
    IN  IF c.op = "set" THEN set(st, c.key, c.value, order)
        ELSE IF c.op = "remove" THEN remove(st, c.key, order)
        ELSE get(st, c.key)

\* The method returns: the MutexGuard is dropped, the call returns its
\* result.
Unlock(t) ==
    /\ pc[t] = "unlock"
    /\ mutex' = 0
    /\ pc' = [pc EXCEPT ![t] = "idle"]
    /\ ret' = [ret EXCEPT ![t] = [call |-> call[t], result |-> loc[t].result,
                                   expect |-> loc[t].expect,
                                   contended |-> loc[t].contended]]
    /\ serial' = RunSerially(serial, call[t], index)
    /\ call' = [call EXCEPT ![t] = NoCall]
    /\ loc' = [loc EXCEPT ![t] = NoLocals]
    /\ UNCHANGED <<engineVars, abs, ncalls>>
    /\ ThreadFrame

NextConc ==
    \E t \in Threads :
        \/ \E c \in Calls : Invoke(t, c)
        \/ Lock(t)
        \/ SetWrite(t)
        \/ SetInsert(t)
        \/ RemoveCheck(t)
        \/ RemoveDelete(t)
        \/ CompactCopy(t)
        \/ CompactRename(t)
        \/ CompactReplace(t)
        \/ GetLookup(t)
        \/ GetRead(t)
        \/ Unlock(t)

SpecConc == InitConc /\ [][NextConc]_vars

(***************************************************************************)
(* The server: handle_client on each accepted connection (server.rs).     *)
(* The two directions of a TcpStream are byte sequences; the client's end *)
(* writes requests without waiting for the responses (it may pipeline),   *)
(* may write bytes that are no request, and may close.  The engine behind *)
(* the handlers is one KvStore; a call on it runs under its mutex and is  *)
(* one step here.                                                          *)
(***************************************************************************)
ReqSet(key, value) == [op |-> "set", key |-> key, value |-> value]
ReqGet(key) == [op |-> "get", key |-> key, value |-> <<>>]
ReqRemove(key) == [op |-> "remove", key |-> key, value |-> <<>>]

RespOk(opt) == [tag |-> "Ok", opt |-> opt, msg |-> ""]
RespErr(msg) == [tag |-> "Err", opt |-> None, msg |-> msg]

\* serde_json::to_writer(&mut writer, &req)
encode_request(r) ==
    IF r.op = "set" THEN <<OPEN_SET, r.key>> \o r.value \o <<CLOSE>>
    ELSE IF r.op = "get" THEN <<OPEN_GET, r.key, CLOSE>>
    ELSE <<OPEN_REMOVE, r.key, CLOSE>>

\* One step of Deserializer::from_reader(reader).into_iter::<Request>() on
\* `bytes` from offset `off`: a Request and the offset behind it, an error,
\* or nothing more to read.
decode_request(bytes, off) ==
    LET n == Len(bytes)
        at(i) == IF off + i <= n THEN bytes[off + i] ELSE "EOF"
        stops == {j \in (off + 3)..n : bytes[j] # "x"}
        stop == CHOOSE j \in stops : \A m \in stops : j <= m
    IN  IF off >= n THEN [kind |-> "eof", req |-> NoRequest, next |-> off]
        ELSE IF at(1) = OPEN_GET /\ at(2) \in AllKeyNames /\ at(3) = CLOSE
        THEN [kind |-> "req", req |-> ReqGet(at(2)), next |-> off + 3]
        ELSE IF at(1) = OPEN_REMOVE /\ at(2) \in AllKeyNames /\ at(3) = CLOSE
        THEN [kind |-> "req", req |-> ReqRemove(at(2)), next |-> off + 3]
        ELSE IF at(1) = OPEN_SET /\ at(2) \in AllKeyNames /\ stops # {}
                /\ bytes[stop] = CLOSE
        THEN [kind |-> "req",
              req |-> ReqSet(at(2), SubSeq(bytes, off + 3, stop - 1)),
              next |-> stop]
        ELSE [kind |-> "err", req |-> NoRequest, next |-> off]

\* serde_json::to_writer(&mut writer, &resp)
encode_response(r) ==
    IF r.tag = "Err" THEN <<OPEN_ERR, r.msg, CLOSE>>
    ELSE IF IsSome(r.opt) THEN <<OPEN_OK>> \o Unwrap(r.opt) \o <<CLOSE>>
    ELSE <<OPEN_OK, NULL, CLOSE>>

\* Response::deserialize on `bytes` from offset `off`.
decode_response(bytes, off) ==
    LET n == Len(bytes)
        at(i) == IF off + i <= n THEN bytes[off + i] ELSE "EOF"
        stops == {j \in (off + 2)..n : bytes[j] # "x"}
        stop == CHOOSE j \in stops : \A m \in stops : j <= m
    IN  IF off >= n THEN [kind |-> "eof", resp |-> NoResponse, next |-> off]
        ELSE IF at(1) = OPEN_ERR /\ at(3) = CLOSE
        THEN [kind |-> "resp", resp |-> RespErr(at(2)), next |-> off + 3]
        ELSE IF at(1) = OPEN_OK /\ at(2) = NULL /\ at(3) = CLOSE
        THEN [kind |-> "resp", resp |-> RespOk(None), next |-> off + 3]
        ELSE IF at(1) = OPEN_OK /\ stops # {} /\ bytes[stop] = CLOSE
        THEN [kind |-> "resp",
              resp |-> RespOk(Some(SubSeq(bytes, off + 2, stop - 1))),
              next |-> stop]
        ELSE [kind |-> "err", resp |-> NoResponse, next |-> off]

\* The match of handle_client: the engine call of a request, as the
\* KvStoreInner it leaves and the Result it returns ...
engine_call(st, r, order) ==
    IF r.op = "get" THEN [st |-> get(st, r.key), result |-> get_result(st, r.key)]
    ELSE IF r.op = "set"
    THEN [st |-> set(st, r.key, r.value, order), result |-> Ok(None)]
    ELSE [st |-> remove(st, r.key, order), result |-> remove_result(st, r.key)]

\* ... and the Response built from that Result.
response_of(r, result) ==
    IF ~result.ok THEN RespErr(to_string(result.err))
    ELSE IF r.op = "get" THEN RespOk(result.opt)
    ELSE RespOk(None)

\* What the clients write: the requests on one key with one value, among
\* them a remove that fails when the key is absent.
Requests ==
    {ReqSet(KeyNames[1], <<"x">>), ReqGet(KeyNames[1]), ReqRemove(KeyNames[1])}
\* Bytes that are no request.
Garbage == <<"?">>
Malformed == [op |-> "?", key |-> "", value |-> <<>>]

ServerFrame == UNCHANGED <<histVars, crashes, concVars, clientVars, poolVars, bootVars>>

\* The store is open and the server handles its connections.
InitServer ==
    /\ \E log \in EarlierLogs :
         LET st == open(Some(log), None)
         IN  /\ wal_log = Some(st.wal)
             /\ index = st.index
             /\ stale_bytes = st.stale_bytes
             /\ writer = st.writer
             /\ reader = st.reader
    /\ wal_log_compact = None
    /\ opened = TRUE
    /\ InitHistory
    /\ InitThreads
    /\ InitConnections
    /\ NewPool
    /\ ServerStarted

\* The handler of connection c has not flushed a response for every request
\* the client wrote.
Unanswered(c) == handler[c] \in {"execute", "respond"} \/ req_pos[c] < Len(to_server[c])

\* The client of connection c writes a request and flushes.
ClientWrite(c, r) ==
    /\ ~shut[c]
    /\ nsent < MaxRequests
    /\ nsent' = nsent + 1
    /\ to_server' = [to_server EXCEPT ![c] = @ \o encode_request(r)]
    /\ sent' = [sent EXCEPT ![c] = Append(@, r)]
    /\ pipelined' = [pipelined EXCEPT ![c] = @ \/ Unanswered(c)]
    /\ UNCHANGED <<engineVars, shut, req_pos, handler, req, resp, to_client, served>>
    /\ ServerFrame

\* The client of connection c writes bytes that are no request.
ClientWriteGarbage(c) ==
    /\ ~shut[c]
    /\ nsent < MaxRequests
    /\ nsent' = nsent + 1
    /\ to_server' = [to_server EXCEPT ![c] = @ \o Garbage]
    /\ sent' = [sent EXCEPT ![c] = Append(@, Malformed)]
    /\ UNCHANGED <<engineVars, shut, req_pos, handler, req, resp, to_client, served,
                   pipelined>>
    /\ ServerFrame

\* The client of connection c closes its end.
ClientClose(c) ==
    /\ ~shut[c]
    /\ shut' = [shut EXCEPT ![c] = TRUE]
    /\ UNCHANGED <<engineVars, to_server, req_pos, handler, req, resp, to_client,
                   sent, served, pipelined, nsent>>
    /\ ServerFrame

\* server.rs:21-29, KvsServer::run: the accept loop takes the next stream (in
\* the order the connections were made), clones the engine and spawns the job
\* that runs handle_client on it.
Accept(c) ==
    /\ handler[c] = "pending"
    /\ \A d \in Connections : d < c => handler[d] # "pending"
    /\ handler' = [handler EXCEPT ![c] = "decode"]
    /\ UNCHANGED <<engineVars, to_server, shut, req_pos, req, resp, to_client, sent,
                   served, pipelined, nsent>>
    /\ ServerFrame

\* Fault: the handler skips what does not decode and goes on reading.
decode_failed_skips(pos) == [handler |-> "decode", req_pos |-> pos + 1]

\* server.rs:44, `let req = req?;` on an Err item: handle_client returns, the
\* rest of the stream is not read.
decode_failed(pos) == [handler |-> "returned", req_pos |-> pos]

\* server.rs:43-44, `for req in req_stream { let req = req?;`: the next
\* request is decoded (the read blocks while the client has written nothing
\* more and has not closed), the loop ends at the end of the stream, and a
\* decode error returns from handle_client.
NextRequest(c) ==
    /\ handler[c] = "decode"
    /\ LET d == decode_request(to_server[c], req_pos[c])
       IN  \/ /\ d.kind = "req"
              /\ req' = [req EXCEPT ![c] = d.req]
              /\ req_pos' = [req_pos EXCEPT ![c] = d.next]
              /\ handler' = [handler EXCEPT ![c] = "execute"]
           \/ /\ d.kind = "err"
              /\ handler' = [handler EXCEPT ![c] = decode_failed(req_pos[c]).handler]
              /\ req_pos' = [req_pos EXCEPT ![c] = decode_failed(req_pos[c]).req_pos]
              /\ UNCHANGED req
           \/ /\ d.kind = "eof" /\ shut[c]
              /\ handler' = [handler EXCEPT ![c] = "returned"]
              /\ UNCHANGED <<req, req_pos>>
    /\ UNCHANGED <<engineVars, to_server, shut, resp, to_client, sent, served,
                   pipelined, nsent>>
    /\ ServerFrame

\* The KvStoreInner a mutating request leaves before the compaction check.
appended(st, r) ==
    IF r.op = "set" THEN set_append(st, r.key, r.value)
    ELSE IF r.op = "remove" /\ r.key \in DOMAIN st.index THEN remove_append(st, r.key)
    ELSE st

\* Fault: an engine error returns from handle_client (`engine.remove(key)?`).
after_call_error_returns(result) == IF result.ok THEN "respond" ELSE "returned"

\* Where handle_client goes after the engine call: to the response, whatever
\* the Result is.
after_call(result) == "respond"

\* server.rs:45-58: the engine call of the request and the Response built
\* from its Result.
Execute(c) ==
    /\ handler[c] = "execute"
    /\ LET st1 == appended(Inner, req[c])
           compacting == st1.stale_bytes > COMPACTION_THRESHOLD
       IN  \E order \in OrdersIf(compacting, st1.index) :
             LET e == engine_call(Inner, req[c], order)
             IN  /\ Install(e.st)
                 /\ resp' = [resp EXCEPT ![c] = response_of(req[c], e.result)]
                 /\ served' = [served EXCEPT ![c] =
                                  Append(@, [req |-> req[c], result |-> e.result])]
                 /\ handler' = [handler EXCEPT ![c] = after_call(e.result)]
    /\ UNCHANGED <<opened, to_server, shut, req_pos, req, to_client, sent,
                   pipelined, nsent>>
    /\ ServerFrame

\* Fault: the response stays in the BufWriter (no flush).
flushed_never(out, r) == out

\* server.rs:60-61: the response is serialized into the writer and flushed.
flushed(out, r) == out \o encode_response(r)

Respond(c) ==
    /\ handler[c] = "respond"
    /\ to_client' = [to_client EXCEPT ![c] = flushed(@, resp[c])]
    /\ handler' = [handler EXCEPT ![c] = "decode"]
    /\ UNCHANGED <<engineVars, to_server, shut, req_pos, req, resp, sent, served,
                   pipelined, nsent>>
    /\ ServerFrame

NextServer ==
    \E c \in Connections :
        \/ \E r \in Requests : ClientWrite(c, r)
        \/ ClientWriteGarbage(c)
        \/ ClientClose(c)
        \/ Accept(c)
        \/ NextRequest(c)
        \/ Execute(c)
        \/ Respond(c)

SpecServer == InitServer /\ [][NextServer]_vars

(***************************************************************************)
(* The client: a KvsClient on each connection (client.rs).  A call writes *)
(* its request, flushes, and returns what it makes of the one response it *)
(* reads; the server side is handle_client as above.                      *)
(***************************************************************************)
\* Fault: the client turns the message back into the variant it names.
client_result_restores_variant(r, response) ==
    IF response.tag = "Err"
    THEN IF response.msg = "Key not found" THEN Err(KeyNotFound)
         ELSE Err(StringError(response.msg))
    ELSE IF r.op = "get" THEN Ok(response.opt)
    ELSE Ok(None)

\* client.rs:28-31, 39-42, 50-53: the match on the response.  Ok(None) stands
\* for the Ok(()) of set and remove.
client_result(r, response) ==
    IF response.tag = "Err" THEN Err(StringError(response.msg))
    ELSE IF r.op = "get" THEN Ok(response.opt)
    ELSE Ok(None)

\* The KvsClient of connection c is inside a call.
InCall(c) == Len(results[c]) < Len(sent[c])

\* client.rs:24-26, 35-37, 46-48: a call of get, set or remove builds its
\* request, serializes it into the writer and flushes.
ClientCall(c, r) ==
    /\ ~InCall(c)
    /\ ClientWrite(c, r)

\* client.rs:27-31: the call reads one response and returns.  The read blocks
\* until the response is there; it fails when the stream does not decode or
\* has ended.
ClientReturn(c) ==
    /\ InCall(c)
    /\ LET d == decode_response(to_client[c], resp_pos[c])
           r == sent[c][Len(results[c]) + 1]
       IN  /\ d.kind = "eof" => handler[c] = "returned"
           /\ results' = [results EXCEPT ![c] =
                   Append(@, IF d.kind = "resp" THEN client_result(r, d.resp)
                             ELSE Err(SerdeError))]
           /\ resp_pos' = [resp_pos EXCEPT ![c] = d.next]
    /\ UNCHANGED <<engineVars, serverVars, histVars, crashes, concVars, poolVars,
                   bootVars>>

\* The KvsClient of connection c is dropped, between calls.
ClientDrop(c) ==
    /\ ~InCall(c)
    /\ ClientClose(c)

NextClient ==
    \E c \in Connections :
        \/ \E r \in Requests : ClientCall(c, r)
        \/ ClientReturn(c)
        \/ ClientDrop(c)
        \/ Accept(c)
        \/ NextRequest(c)
        \/ Execute(c)
        \/ Respond(c)

SpecClient == InitServer /\ [][NextClient]_vars

(***************************************************************************)
(* SharedQueueThreadPool (thread_pool/shared_queue.rs): an unbounded FIFO *)
(* channel, NumWorkers worker threads looping on it, an owner that spawns *)
(* jobs and then drops the pool.  A job runs to its end or panics.        *)
(***************************************************************************)
PoolFrame ==
    UNCHANGED <<engineVars, histVars, crashes, concVars, serverVars, clientVars, bootVars>>

\* The receiver of a worker is alive while its thread is.
Receiving(w) == worker[w] \in {"recv", "run"}

\* Fault: a Terminate message is put in front of the messages queued.
send_terminate_first(q, msg) ==
    IF \E w \in Workers : Receiving(w)
    THEN IF msg.kind = "Terminate" THEN <<msg>> \o q ELSE Append(q, msg)
    ELSE q

\* Sender::send on the unbounded channel: the message is queued, unless every
\* receiver is gone (then send returns Err and the message is not queued).
send(q, msg) == IF \E w \in Workers : Receiving(w) THEN Append(q, msg) ELSE q

\* shared_queue.rs:69-75, spawn: the job is boxed and sent; a failed send
\* panics in the caller ("The thread pool is dead.").
Spawn(panics) ==
    /\ pool = "alive"
    /\ spawned < MaxJobs
    /\ spawned' = spawned + 1
    /\ queue' = send(queue, NewJob(spawned + 1, panics))
    /\ pool' = IF \E w \in Workers : Receiving(w) THEN pool ELSE "panicked"
    /\ UNCHANGED <<worker, job, drop_i, executed, taken>>
    /\ PoolFrame

\* Fault: a Terminate message does not end the worker's loop.
after_message_ignores_terminate(msg) == IF msg.kind = "NewJob" THEN "run" ELSE "recv"

\* shared_queue.rs:33-41, the match on the message: a job is run, Terminate
\* breaks the loop and the thread ends.
after_message(msg) == IF msg.kind = "NewJob" THEN "run" ELSE "exited"

\* shared_queue.rs:31, receiver.recv() in worker w: the oldest message of the
\* channel (recv blocks while there is none; it cannot fail while the pool
\* holds the sender).
Recv(w) ==
    /\ worker[w] = "recv"
    /\ queue # <<>>
    /\ queue' = Tail(queue)
    /\ job' = [job EXCEPT ![w] = IF Head(queue).kind = "NewJob" THEN Head(queue) ELSE @]
    /\ worker' = [worker EXCEPT ![w] = after_message(Head(queue))]
    /\ taken' = [taken EXCEPT ![w] = IF Head(queue).kind = "Terminate" THEN @ + 1 ELSE @]
    /\ UNCHANGED <<pool, drop_i, spawned, executed>>
    /\ PoolFrame

\* Fault: the job is called without catch_unwind, its panic unwinds the thread.
after_job_panic_unwinds(panicked) == IF panicked THEN "panicked" ELSE "recv"

\* shared_queue.rs:36, `let _ = panic::catch_unwind(AssertUnwindSafe(job))`:
\* whether the job returned or panicked, the loop goes on.
after_job(panicked) == "recv"

\* The job of worker w runs to its end (or to its panic).
RunJob(w) ==
    /\ worker[w] = "run"
    /\ executed' = executed \cup {[id |-> job[w].id, worker |-> w,
                                    panicked |-> job[w].panics]}
    /\ worker' = [worker EXCEPT ![w] = after_job(job[w].panics)]
    /\ job' = [job EXCEPT ![w] = NoJob]
    /\ UNCHANGED <<queue, pool, drop_i, spawned, taken>>
    /\ PoolFrame

\* self.workers.len(): the workers the pool was constructed with.
PoolSize == Cardinality({w \in Workers : worker[w] # "none"})

\* shared_queue.rs:85-87, the first loop of drop: one Terminate is sent for
\* each worker, a failed send is ignored.
DropSend ==
    /\ pool \in {"alive", "terminating"}
    /\ PoolSize > 0
    /\ queue' = send(queue, Terminate)
    /\ IF drop_i + 1 = PoolSize
       THEN pool' = "joining" /\ drop_i' = 0
       ELSE pool' = "terminating" /\ drop_i' = drop_i + 1
    /\ UNCHANGED <<worker, job, spawned, executed, taken>>
    /\ PoolFrame

\* shared_queue.rs:89-93, the second loop of drop: join waits until the
\* worker's thread has ended, and unwrap panics if it ended by a panic.
DropJoin ==
    /\ pool = "joining"
    /\ worker[drop_i + 1] \in {"exited", "panicked"}
    /\ IF worker[drop_i + 1] = "panicked"
       THEN pool' = "panicked" /\ UNCHANGED drop_i
       ELSE IF drop_i + 1 = PoolSize
       THEN pool' = "dropped" /\ drop_i' = 0
       ELSE pool' = "joining" /\ drop_i' = drop_i + 1
    /\ UNCHANGED <<queue, worker, job, spawned, executed, taken>>
    /\ PoolFrame

NextPool ==
    \/ \E panics \in BOOLEAN : Spawn(panics)
    \/ \E w \in Workers : Recv(w)
    \/ \E w \in Workers : RunJob(w)
    \/ DropSend
    \/ DropJoin

SpecPool == Init /\ [][NextPool]_vars

\* The worker threads and the thread inside drop keep running: a step they
\* can take is taken.  Nothing obliges the owner to spawn or to drop.
SpecPoolLive ==
    /\ SpecPool
    /\ \A w \in Workers : WF_vars(Recv(w) \/ RunJob(w))
    /\ WF_vars(pool # "alive" /\ DropSend)
    /\ WF_vars(DropJoin)

(***************************************************************************)
(* The kvs-server binary (bin/kvs-server.rs): get_engine and main, on a   *)
(* directory that the library may also have used through KvStore::open.   *)
(***************************************************************************)
\* Fault: the requested engine is taken without reading the .engine file.
get_engine_unchecked(file, engine) ==
    IF IsSome(engine)
    THEN [result |-> Ok(engine), file |-> Some(engine_to_writer(Unwrap(engine)))]
    ELSE IF IsSome(file)
    THEN [result |-> engine_from_reader(Unwrap(file)), file |-> file]
    ELSE [result |-> Ok(Some(Kvs)), file |-> Some(engine_to_writer(Kvs))]

\* kvs-server.rs:52-75, get_engine(engine) with the .engine file `file`:
\* what it returns and the .engine file it leaves.
get_engine(file, engine) ==
    IF IsSome(engine)
    THEN LET last_engine == engine_from_reader(Unwrap(file))
         IN  IF IsSome(file) /\ ~last_engine.ok
             THEN [result |-> last_engine, file |-> file]
             ELSE IF IsSome(file) /\ engine # last_engine.opt
             THEN [result |-> Err(EngineMismatch), file |-> file]
             ELSE [result |-> Ok(engine), file |-> Some(engine_to_writer(Unwrap(engine)))]
    ELSE IF IsSome(file)
    THEN [result |-> engine_from_reader(Unwrap(file)), file |-> file]
    ELSE [result |-> Ok(Some(Kvs)), file |-> Some(engine_to_writer(Kvs))]

BootFrame == UNCHANGED <<histVars, crashes, concVars, serverVars, clientVars, poolVars>>

\* kvs-server.rs:30-50, main with `--engine` given (Some) or not (None):
\* get_engine, then the engine is opened on the directory and the server
\* runs, i.e. binds its listener.  An error of get_engine or of the open
\* returns from main.
StartServer(arg) ==
    /\ server.state # "running"
    /\ ~opened
    /\ LET g == get_engine(engine_file, arg)
           start(chosen, listening) ==
               ServerProcess(IF listening THEN "running" ELSE "failed",
                             arg, engine_file, chosen,
                             IF listening THEN chosen.opt ELSE None, listening)
       IN  /\ engine_file' = g.file
           /\ IF ~g.result.ok
              THEN /\ server' = start(g.result, FALSE)
                   /\ UNCHANGED <<engineVars, sled_db>>
              ELSE IF g.result.opt = Some(Sled)
              THEN /\ server' = start(g.result, TRUE)
                   /\ sled_db' = TRUE
                   /\ UNCHANGED engineVars
              ELSE IF open_result(wal_log)
              THEN /\ server' = start(g.result, TRUE)
                   /\ opened' = TRUE
                   /\ Install(open(wal_log, wal_log_compact))
                   /\ UNCHANGED sled_db
              ELSE /\ server' = start(Err(SerdeError), FALSE)
                   /\ wal_log' = Some(Content(wal_log))
                   /\ UNCHANGED <<wal_log_compact, opened, index, stale_bytes, writer,
                                  reader, sled_db>>
    /\ BootFrame

\* The server process ends; its engine is dropped with it.
StopServer ==
    /\ server.state = "running"
    /\ server' = [server EXCEPT !.state = "stopped", !.listening = FALSE]
    /\ opened' = FALSE
    /\ index' = EmptyIndex
    /\ stale_bytes' = 0
    /\ writer' = 0
    /\ reader' = 0
    /\ UNCHANGED <<wal_log, wal_log_compact, engine_file, sled_db>>
    /\ BootFrame

\* The program that uses the library in the directory: KvStore::open, sets
\* of one key, drop, while no server runs there.
LibraryStep ==
    /\ server.state # "running"
    /\ \/ OpenStore
       \/ \E value \in Values : CallSet(KeyNames[1], value)
       \/ DropStore

Args == {None} \cup {Some(e) : e \in Engines}

NextBoot ==
    \/ \E arg \in Args : StartServer(arg)
    \/ StopServer
    \/ LibraryStep

SpecBoot == Init /\ [][NextBoot]_vars

(***************************************************************************)
(* Properties of the engine under Spec.                                    *)
(***************************************************************************)
Wal == Content(wal_log)

\* C1: if the most recent successful set or remove of key k was set(k, v),
\* then get(k) returns Some(v): in every state of an open store, whatever
\* was done to other keys and whatever compactions ran, and for the get
\* call that was just made.
C1_GetReturnsLastSet ==
    /\ opened =>
         \A k \in Keys : lastMut[k].kind = "set"
                            => get_result(Inner, k) = Ok(Some(lastMut[k].value))
    /\ (lastOp.op = "get" /\ lastMut[lastOp.key].kind = "set")
         => lastOp.result = Ok(Some(lastMut[lastOp.key].value))

\* A get that returned the value last set, with another key removed and a
\* compaction behind it (nothing stale is left of that remove).
C1_Witness ==
    /\ lastOp.op = "get"
    /\ lastMut[lastOp.key].kind = "set"
    /\ lastOp.result = Ok(Some(lastMut[lastOp.key].value))
    /\ \E k \in Keys : lastMut[k].kind = "remove"
    /\ stale_bytes = 0

\* C2: after a successful remove(k) with no later set(k, _), get(k) returns
\* None and remove(k) fails with KeyNotFound, in every later state of an open
\* store (also after compactions and after operations on other keys).
C2_RemovedStaysRemoved ==
    /\ opened =>
         \A k \in Keys : lastMut[k].kind = "remove"
                            => /\ get_result(Inner, k) = Ok(None)
                               /\ remove_result(Inner, k) = Err(KeyNotFound)
    /\ (lastOp.op \in {"get", "remove"} /\ lastMut[lastOp.key].kind = "remove")
         => \/ lastOp.result = Ok(None)
            \/ lastOp.op = "remove" /\ lastOp.result = Err(KeyNotFound)

\* A second remove of a removed key has failed, after the compaction that
\* the first one (or a later call) triggered.
C2_Witness ==
    /\ lastOp.op = "remove"
    /\ lastOp.result = Err(KeyNotFound)
    /\ lastMut[lastOp.key].kind = "remove"
    /\ stale_bytes = 0
    /\ Len(Wal) > 0

\* C3: remove(k) returns KeyNotFound exactly when the index has no entry
\* for k at the call, and then it writes nothing: wal.log, the index,
\* stale_bytes and the writer position stay as they are and no compaction
\* runs.
C3_RemoveAbsentWritesNothing ==
    [][lastOp'.op = "remove"
         => /\ (lastOp'.result = Err(KeyNotFound)) <=> (lastOp'.key \notin DOMAIN index)
            /\ (lastOp'.key \in DOMAIN index) => lastOp'.result = Ok(None)
            /\ (lastOp'.key \notin DOMAIN index)
                 => /\ UNCHANGED <<wal_log, wal_log_compact, index, stale_bytes, writer>>
                    /\ ~lastOp'.compacted]_vars

\* A remove has failed on a store whose log holds live and stale records.
C3_Witness ==
    /\ lastOp.op = "remove"
    /\ lastOp.result = Err(KeyNotFound)
    /\ stale_bytes > 0
    /\ DOMAIN index # {}

\* C4: dropping the store and opening the directory again succeeds and
\* gives, for every key, the get result of before the drop; the rebuilt
\* index has the keys of the live one and each entry names an extent
\* holding the same record.
C4_ReopenPreserves ==
    lastOp.op = "open"
        => /\ lastOp.result.ok
           /\ opened
           /\ IsSome(snapshot)
                => /\ AllGets(Inner) = Unwrap(snapshot).gets
                   /\ Records(Inner) = Unwrap(snapshot).records

\* A reopened store whose log holds a live key, a removed key and stale
\* records.
C4_Witness ==
    /\ lastOp.op = "open"
    /\ IsSome(snapshot)
    /\ DOMAIN index # {}
    /\ \E k \in Keys : lastMut[k].kind = "remove"
    /\ stale_bytes > 0

\* C5: compaction changes no get result: after a call that compacted,
\* every key reads as it did between the call's write and its compaction;
\* and compacting the store of any state between calls, in any key order,
\* would change no get result either.
C5_CompactionKeepsGets ==
    /\ lastOp.compacted => AllGets(Inner) = Unwrap(snapshot).gets
    /\ opened => \A order \in Orders(index) :
                     AllGets(compact(Inner, order)) = AllGets(Inner)

\* A call has compacted a log with two live keys.
C5_Witness ==
    /\ lastOp.compacted
    /\ Cardinality(DOMAIN index) >= 2
    /\ \A k \in DOMAIN index : get_result(Inner, k).opt # None

\* The sum of the lengths of the records the index names.
RECURSIVE SumLen(_, _)
SumLen(idx, keys) ==
    IF keys = {} THEN 0
    ELSE LET k == CHOOSE x \in keys : TRUE
         IN  idx[k].len + SumLen(idx, keys \ {k})
LiveBytes == SumLen(index, DOMAIN index)

\* The workload so far was sets to the single key k, each of a value other
\* than the one k held, and the last call is one of them.
RepeatedSetsOf(k) ==
    /\ opened
    /\ onlySets
    /\ lastOp.op = "set" /\ lastOp.key = k
    /\ \A k2 \in Keys \ {k} : lastMut[k2].kind = "none"

\* After every successful set or remove the size of wal.log is at most
\* 2 x (the lengths of the records the index names) + COMPACTION_THRESHOLD.
LogWithinBound ==
    (opened /\ lastOp.op \in {"set", "remove"} /\ lastOp.result.ok)
        => Len(Wal) <= 2 * LiveBytes + COMPACTION_THRESHOLD

\* C7 as stated: the bound above, and repeated sets of different values to
\* one key never let wal.log grow beyond 2 x COMPACTION_THRESHOLD while get
\* returns the last value.
C7_AsStated ==
    /\ LogWithinBound
    /\ \A k \in Keys :
         RepeatedSetsOf(k)
            => /\ Len(Wal) <= 2 * COMPACTION_THRESHOLD
               /\ get_result(Inner, k) = Ok(Some(lastMut[k].value))

\* C7 as amended: the bound above, and repeated sets of different values to
\* one key never let wal.log grow beyond COMPACTION_THRESHOLD + the length
\* of the newest record, while get returns the last value.
C7_LogBound ==
    /\ LogWithinBound
    /\ \A k \in Keys :
         RepeatedSetsOf(k)
            => /\ Len(Wal) <= COMPACTION_THRESHOLD + index[k].len
               /\ get_result(Inner, k) = Ok(Some(lastMut[k].value))

\* Repeated sets to one key have just compacted the log, and the key reads
\* its last value.
C7_Witness ==
    /\ \E k \in Keys : RepeatedSetsOf(k) /\ get_result(Inner, k) = Ok(Some(lastMut[k].value))
    /\ lastOp.compacted

(***************************************************************************)
(* Properties under SpecCrash.                                             *)
(***************************************************************************)
\* C6: when the process has stopped anywhere inside a compaction, opening
\* the directory succeeds and every key reads as it did just before that
\* compaction began; and the same holds for every later open, whatever
\* calls and compactions were made in between (every open returns the get
\* results of the moment the store was dropped or stopped).
C6_CrashSafeCompaction ==
    lastOp.op = "open"
        => /\ lastOp.result.ok
           /\ opened
           /\ IsSome(snapshot) => AllGets(Inner) = Unwrap(snapshot).gets

(***************************************************************************)
(* Properties under SpecConc.                                              *)
(***************************************************************************)
\* C8: every call takes effect atomically at the moment it locks the mutex:
\* it returns what the calls, taken in the order of locking, give on a
\* map; whenever the mutex is free the index, the log and the rest of the
\* KvStoreInner are those of the calls run one by one, and every key reads
\* the value of the last set that locked the mutex (None after a remove),
\* never an error of a torn or misplaced record.
C8_Linearizable ==
    /\ \A t \in Threads : ret[t].result = ret[t].expect
    /\ mutex = 0
         => /\ Inner = serial
            /\ \A k \in Keys : get_result(Inner, k) = Ok(abs[k])

\* Two threads have set the same key to different values in overlapping
\* calls, both have returned, and the key reads one of the two values.
C8_Witness ==
    \E t, u \in Threads :
        /\ t # u
        /\ \A w \in Threads : pc[w] = "idle"
        /\ ret[t].call.op = "set" /\ ret[u].call.op = "set"
        /\ ret[t].call.key = ret[u].call.key
        /\ ret[t].call.value # ret[u].call.value
        /\ ret[t].contended
        /\ get_result(Inner, ret[t].call.key) = Ok(Some(ret[u].call.value))

\* What a peer reading the byte stream decodes from it: the responses in
\* to_client, and the requests in the part of to_server consumed so far.  A
\* stream that does not decode ends in NoResponse or NoRequest.
RECURSIVE responses_from(_, _)
responses_from(bytes, off) ==
    LET d == decode_response(bytes, off)
    IN  IF d.kind = "resp" THEN <<d.resp>> \o responses_from(bytes, d.next)
        ELSE IF d.kind = "eof" THEN <<>>
        ELSE <<NoResponse>>

RECURSIVE requests_from(_, _)
requests_from(bytes, off) ==
    LET d == decode_request(bytes, off)
    IN  IF d.kind = "req" THEN <<d.req>> \o requests_from(bytes, d.next)
        ELSE IF d.kind = "eof" THEN <<>>
        ELSE <<NoRequest>>

Answers(c) == responses_from(to_client[c], 0)
Decoded(c) == requests_from(SubSeq(to_server[c], 1, req_pos[c]), 0)

\* The requests the client wrote before the first bytes that are no request.
RECURSIVE WellFormedPrefix(_)
WellFormedPrefix(rs) ==
    IF rs = <<>> \/ Head(rs) = Malformed THEN <<>>
    ELSE <<Head(rs)>> \o WellFormedPrefix(Tail(rs))

\* C9: an engine error (a remove of an absent key) is answered with
\* Response::Err carrying the error's message and does not end the
\* connection: handle_client returns only at the end of the stream or at bytes
\* that do not decode, so that when it has returned every well-formed
\* request written before that point, also those behind a failed one, was
\* executed and answered.
C9_EngineErrorKeepsConnection ==
    \A c \in Connections :
        LET answers == Answers(c)
            good == WellFormedPrefix(sent[c])
        IN  /\ \A i \in 1..Len(answers) :
                   ~served[c][i].result.ok
                       => answers[i] = RespErr(to_string(served[c][i].result.err))
            /\ handler[c] = "returned"
                   => /\ Len(served[c]) = Len(good)
                      /\ Len(answers) = Len(good)
                      /\ Len(good) = Len(sent[c]) => shut[c]

\* A remove of an absent key was answered with Err("Key not found"), and the
\* request behind it on the same connection was executed and answered with Ok.
C9_Witness ==
    \E c \in Connections :
        /\ Len(Answers(c)) >= 2
        /\ served[c][1].req.op = "remove"
        /\ served[c][1].result = Err(KeyNotFound)
        /\ Answers(c)[1] = RespErr("Key not found")
        /\ Answers(c)[2].tag = "Ok"

\* C10: on one connection there is exactly one response for each request
\* decoded, the i-th response is the result of the i-th request the client
\* wrote, and the response of a request is flushed before the next request is
\* executed, also when the client has written further requests ahead.
C10_OneResponsePerRequestInOrder ==
    \A c \in Connections :
        LET answers == Answers(c)
            n == Len(answers)
            decoded == Decoded(c)
        IN  /\ \A i \in 1..n : answers[i] # NoResponse
            /\ decoded = SubSeq(sent[c], 1, Len(decoded))
            /\ handler[c] \in {"pending", "decode", "returned"}
                   => n = Len(decoded) /\ Len(served[c]) = n
            /\ handler[c] = "execute"
                   => n + 1 = Len(decoded) /\ Len(served[c]) = n
            /\ handler[c] = "respond"
                   => n + 1 = Len(decoded) /\ Len(served[c]) = n + 1
            /\ \A i \in 1..Len(served[c]) : served[c][i].req = sent[c][i]
            /\ \A i \in 1..n :
                   answers[i] = response_of(sent[c][i], served[c][i].result)

\* The client wrote its second request before the first was answered; both
\* are answered, in the order written: the set with Ok(None), the get behind
\* it with the value set.
C10_Witness ==
    \E c \in Connections :
        /\ pipelined[c]
        /\ sent[c] = <<ReqSet(KeyNames[1], <<"x">>), ReqGet(KeyNames[1])>>
        /\ Answers(c) = <<RespOk(None), RespOk(Some(<<"x">>))>>

\* The bytes of a sequence of requests, as the client writes them.
RECURSIVE encode_requests(_)
encode_requests(rs) ==
    IF rs = <<>> THEN <<>> ELSE encode_request(Head(rs)) \o encode_requests(Tail(rs))

\* The handler of connection c is about to read bytes that do not decode.
AtDecodeError(c) ==
    /\ handler[c] = "decode"
    /\ decode_request(to_server[c], req_pos[c]).kind = "err"

\* C11: when the bytes of a connection do not decode, the handler's next step
\* returns from handle_client and changes nothing else: no engine call is
\* made (the store keeps what the answered requests did), nothing more is
\* read or written, and the other connections and the accept loop are where
\* they were.  On every connection only the requests written before the first
\* undecodable bytes are ever executed, and the handler never reads behind them.
C11_DecodeErrorEndsConnection ==
    /\ [](\A c \in Connections :
            LET good == WellFormedPrefix(sent[c])
            IN  /\ Len(served[c]) <= Len(good)
                /\ \A i \in 1..Len(served[c]) : served[c][i].req = good[i]
                /\ req_pos[c] <= Len(encode_requests(good)))
    /\ [][\A c \in Connections :
            (AtDecodeError(c) /\ <<handler[c], req_pos[c], served[c]>>' #
                                   <<handler[c], req_pos[c], served[c]>>)
                => /\ handler'[c] = "returned"
                   /\ UNCHANGED <<engineVars, to_server, shut, req_pos, req, resp,
                                  to_client, sent, served>>
                   /\ \A d \in Connections \ {c} : handler'[d] = handler[d]]_vars

\* Connection c was answered a set and then wrote bytes that do not decode:
\* its handler has returned without reading further, the key still holds the
\* value set, and the handler of another connection is at the top of its loop.
C11_Witness ==
    \E c, d \in Connections :
        /\ c # d
        /\ handler[c] = "returned"
        /\ sent[c] = <<ReqSet(KeyNames[1], <<"x">>), Malformed>>
        /\ Answers(c) = <<RespOk(None)>>
        /\ Len(served[c]) = 1
        /\ req_pos[c] < Len(to_server[c])
        /\ get_result(Inner, KeyNames[1]) = Ok(Some(<<"x">>))
        /\ handler[d] = "decode"

\* C12: what a call of a KvsClient returns, against what the engine call made
\* for it returned: a get returns the engine's Ok(v) as it is (a value or
\* None), a set or remove returns Ok(()) when the engine call succeeded, the
\* client call succeeds exactly when the engine call did, and a failed engine
\* call returns as StringError carrying the error's message, so that a remove
\* of an absent key returns StringError("Key not found") and not KeyNotFound.
C12_EndToEndResult ==
    \A c \in Connections :
        \A i \in 1..Len(results[c]) :
            LET q == sent[c][i]
                e == served[c][i].result
                r == results[c][i]
            IN  /\ served[c][i].req = q
                /\ r.ok <=> e.ok
                /\ (q.op = "get" /\ e.ok) => r = e
                /\ (q.op \in {"set", "remove"} /\ e.ok) => r = Ok(None)
                /\ ~e.ok => /\ r = Err(StringError(to_string(e.err)))
                            /\ r.err # e.err
                /\ (q.op = "remove" /\ e = Err(KeyNotFound))
                       => /\ r.err.variant = "StringError"
                          /\ r.err.msg = "Key not found"

\* A client whose remove of the absent key returned StringError("Key not
\* found") and whose next call succeeded.
C12_Witness ==
    \E c \in Connections :
        /\ Len(results[c]) = 2
        /\ sent[c][1] = ReqRemove(KeyNames[1])
        /\ served[c][1].result = Err(KeyNotFound)
        /\ results[c][1] = Err(StringError("Key not found"))
        /\ results[c][2].ok

\* Where job id is: still in the channel, with a worker, or run.
Queued(id) == \E i \in DOMAIN queue : queue[i].kind = "NewJob" /\ queue[i].id = id
Running(id) == \E w \in Workers : worker[w] = "run" /\ job[w].id = id
Executed(id) == \E e \in executed : e.id = id

\* C13: a panicking job does not end the worker that ran it.  No worker
\* thread ever ends by a panic, a worker ends only by a Terminate message,
\* while the pool is not being dropped all NumWorkers workers are at recv or
\* running a job, however many jobs panicked; no job is lost or run twice,
\* and every job spawned is eventually run.
C13_PanicIsolation ==
    /\ [](/\ \A w \in Workers : worker[w] # "panicked"
          /\ \A w \in Workers : worker[w] = "exited" => taken[w] = 1
          /\ \A w \in Workers : pool = "alive" => Receiving(w)
          /\ \A id \in 1..spawned :
                 /\ Queued(id) \/ Running(id) \/ Executed(id)
                 /\ ~(Queued(id) /\ Running(id))
                 /\ ~(Queued(id) /\ Executed(id))
                 /\ ~(Running(id) /\ Executed(id))
          /\ \A e1, e2 \in executed : e1.id = e2.id => e1 = e2)
    /\ \A id \in 1..MaxJobs : (spawned >= id) ~> Executed(id)

\* The first two jobs panicked, each on its own worker, and the third job
\* was run by the worker that had run the first (the channel is FIFO: it
\* took the third after the first); the pool is alive with every worker at
\* recv.
C13_Witness ==
    /\ pool = "alive"
    /\ \A w \in Workers : worker[w] = "recv"
    /\ \E e1, e2, e3 \in executed :
          /\ e1.id = 1 /\ e1.panicked
          /\ e2.id = 2 /\ e2.panicked /\ e2.worker # e1.worker
          /\ e3.id = 3 /\ e3.worker = e1.worker

\* The Terminate messages sent so far: those in the channel and those taken.
RECURSIVE TakenUpTo(_)
TakenUpTo(n) == IF n = 0 THEN 0 ELSE taken[n] + TakenUpTo(n - 1)
TerminatesSent ==
    Cardinality({i \in DOMAIN queue : queue[i].kind = "Terminate"}) + TakenUpTo(NumWorkers)

\* C14: drop sends exactly NumWorkers Terminate messages (none before it
\* starts, all of them before it joins), a worker takes at most one and has
\* ended exactly when it took one, the join never panics, drop has returned
\* only with every worker thread ended, the channel empty and every job run,
\* and a drop that has started eventually returns, also after panicking jobs.
C14_GracefulShutdown ==
    /\ [](/\ pool = "alive" => TerminatesSent = 0
          /\ pool = "terminating" => TerminatesSent = drop_i
          /\ pool \in {"joining", "dropped"} => TerminatesSent = NumWorkers
          /\ \A w \in Workers : taken[w] <= 1
          /\ \A w \in Workers : taken[w] = 1 <=> worker[w] = "exited"
          /\ pool # "panicked"
          /\ pool = "joining" => \A w \in 1..drop_i : worker[w] = "exited"
          /\ pool = "dropped" => \A w \in Workers : worker[w] = "exited"
          /\ pool = "dropped" => queue = <<>>
          /\ pool = "dropped" => \A id \in 1..spawned : Executed(id))
    /\ (pool # "alive") ~> (pool = "dropped")

\* drop has returned from a pool that ran three jobs, one of them panicking.
C14_Witness ==
    /\ pool = "dropped"
    /\ Cardinality(executed) = 3
    /\ \E e \in executed : e.panicked
    /\ \E e \in executed : ~e.panicked

\* The engine a .engine file names (None: the file is absent or names none).
Names(file) == IF IsSome(file) THEN engine_from_reader(Unwrap(file)).opt ELSE None

\* C15: after kvs-server was started with `--engine X`: if the .engine file
\* it found names another engine, get_engine returned EngineMismatch, the
\* .engine file is what it was, and main opened no engine and bound no
\* listener; if the file was absent or named X, get_engine returned X and
\* the .engine file names X.
C15_ExplicitEngineBootstrap ==
    IsSome(server.arg) =>
        /\ (IsSome(Names(server.marker)) /\ Names(server.marker) # server.arg)
               => /\ server.chosen = Err(EngineMismatch)
                  /\ engine_file = server.marker
                  /\ server.state = "failed"
                  /\ server.engine = None
                  /\ ~server.listening
        /\ (server.marker = None \/ Names(server.marker) = server.arg)
               => /\ server.chosen = Ok(server.arg)
                  /\ engine_file = Some(engine_to_writer(Unwrap(server.arg)))
                  /\ Names(engine_file) = server.arg

\* A start with `--engine sled` in a directory whose .engine file names Kvs
\* and whose log holds records: it failed with EngineMismatch.
C15_Witness ==
    /\ server.state = "failed"
    /\ server.arg = Some(Sled)
    /\ server.marker = Some(engine_to_writer(Kvs))
    /\ server.chosen = Err(EngineMismatch)
    /\ engine_file = Some(engine_to_writer(Kvs))
    /\ Wal # <<>>
    /\ ~sled_db

\* C16: in a directory that was written through KvStore::open, one set and
\* the drop of the store (and where no server ever ran), a start of
\* kvs-server with `--engine sled` fails with EngineMismatch and does not
\* bind the listener.
C16_KvsDirectoryRefusesSled ==
    (/\ server.state # "stopped"
     /\ server.arg = Some(Sled)
     /\ server.marker = None
     /\ lastOp.op = "drop"
     /\ \E k \in Keys, v \in Values : Wal = to_writer(CmdSet(k, v)))
        => /\ server.chosen = Err(EngineMismatch)
           /\ ~server.listening

\* The commands a scan of the log decodes, from offset off on; bytes that do
\* not decode end the sequence with a Remove of no key.
RECURSIVE log_commands(_, _)
log_commands(bytes, off) ==
    LET d == Decode(bytes, off)
    IN  IF d.kind = "cmd" THEN <<d.cmd>> \o log_commands(bytes, d.next)
        ELSE IF d.kind = "eof" THEN <<>>
        ELSE <<CmdRemove("")>>

\* The last call was a set or remove that ran a compaction to its end.
JustCompacted == opened /\ lastOp.compacted /\ lastOp.op \in {"set", "remove"}

\* C17: after a compaction that completed, also one that found a
\* wal.log.compact left by an interrupted compaction, stale_bytes is 0 and
\* wal.log is exactly one Set record for each key of the index: every record
\* decodes, none is a Remove, no key occurs twice, and the length of the file
\* is the sum of the lengths in the index.
C17_CompactedLogIsExact ==
    JustCompacted
        => /\ stale_bytes = 0
           /\ LET cmds == log_commands(Wal, 0)
              IN  /\ \A i \in DOMAIN cmds :
                         cmds[i].type = "Set" /\ cmds[i].key \in DOMAIN index
                  /\ \A i, j \in DOMAIN cmds : cmds[i].key = cmds[j].key => i = j
                  /\ Len(cmds) = Cardinality(DOMAIN index)
           /\ Len(Wal) = LiveBytes

\* C18: in every state of an open store each index entry lies inside
\* wal.log and the bytes it names decode to a Set record of the entry's key,
\* so that get returns no error, neither for any key now nor in the get
\* call that was just made.
C18_IndexEntriesDecode ==
    /\ opened =>
         \A k \in DOMAIN index :
             LET cmd == from_reader(ReadAt(Wal, index[k].pos, index[k].len))
             IN  /\ index[k].pos + index[k].len <= Len(Wal)
                 /\ IsSome(cmd)
                 /\ Unwrap(cmd).type = "Set"
                 /\ Unwrap(cmd).key = k
    /\ opened => \A k \in Keys : get_result(Inner, k).ok
    /\ lastOp.op = "get" => lastOp.result.ok

\* A compaction has just rewritten the log with every key live: each entry
\* of the new index names its record in the new file.
C18_Witness ==
    /\ JustCompacted
    /\ DOMAIN index = Keys
    /\ \E k \in Keys : index[k].pos > 0
    /\ \A k \in Keys : get_result(Inner, k).ok /\ IsSome(get_result(Inner, k).opt)

\* C19: whenever the store is open and no call is running, the position of
\* the writer is the length of wal.log (nothing it wrote is missing from the
\* file); a set or remove that does not compact extends the file by exactly
\* its record, at the end; and the drop of the store leaves the file as it is.
C19_WriterAtEnd ==
    /\ [](opened => writer = Len(Wal))
    /\ [][(lastOp'.op = "set" /\ ~lastOp'.compacted)
            => Wal' = Wal \o to_writer(CmdSet(lastOp'.key,
                                              lastMut'[lastOp'.key].value))]_vars
    /\ [][(lastOp'.op = "remove" /\ lastOp'.result.ok /\ ~lastOp'.compacted)
            => Wal' = Wal \o to_writer(CmdRemove(lastOp'.key))]_vars
    /\ [][lastOp'.op = "drop" => wal_log' = wal_log]_vars

\* A compaction has just run: the writer was reopened on the new file and
\* stands at its end, behind the records copied.
C19_Witness ==
    /\ JustCompacted
    /\ index # EmptyIndex
    /\ writer = Len(Wal)
    /\ writer = LiveBytes
    /\ writer > 0

\* C20: in every state of an open store, stale_bytes is the length of
\* wal.log minus the lengths of the records the index names: the bytes of the
\* log that the index does not reach, no more and no less.
C20_StaleBytesExact ==
    opened => stale_bytes = Len(Wal) - LiveBytes

(***************************************************************************)
(* KvStore::open on a log written earlier: any concatenation of at most    *)
(* MaxRecords Set and Remove records, a Remove of a key that no record     *)
(* before it set included.                                                 *)
(***************************************************************************)
Commands ==
    {CmdSet(k, v) : k \in Keys, v \in Values} \cup {CmdRemove(k) : k \in Keys}

CommandSeqs == UNION {[1..n -> Commands] : n \in 0..MaxRecords}

\* to_writer of each command, one behind the other
RECURSIVE write_all(_)
write_all(cmds) ==
    IF cmds = <<>> THEN <<>>
    ELSE to_writer(Head(cmds)) \o write_all(Tail(cmds))

\* A directory that holds such a log, nothing opened.
InitLogs ==
    /\ \E cmds \in CommandSeqs : wal_log = Some(write_all(cmds))
    /\ wal_log_compact = None
    /\ opened = FALSE
    /\ index = EmptyIndex
    /\ stale_bytes = 0
    /\ writer = 0
    /\ reader = 0
    /\ InitHistory
    /\ InitThreads
    /\ InitConnections
    /\ NewPool
    /\ NoServer

NextOpen ==
    \/ OpenStore
    \/ DropStore

SpecOpen == InitLogs /\ [][NextOpen]_vars

\* The index that results from the commands cmds[i..], the record of cmds[i]
\* being at offset pos: a Set installs its own extent, a Remove deletes the
\* entry.
RECURSIVE applied(_, _, _, _)
applied(cmds, i, pos, idx) ==
    IF i > Len(cmds) THEN idx
    ELSE LET len == Len(to_writer(cmds[i]))
         IN  applied(cmds, i + 1, pos + len,
                     IF cmds[i].type = "Set"
                     THEN Insert(idx, cmds[i].key, CommandPos(pos, len))
                     ELSE Delete(idx, cmds[i].key))

\* Some Remove of the sequence names a key that no Set before it left set.
RECURSIVE removes_absent(_, _, _)
removes_absent(cmds, i, present) ==
    IF i > Len(cmds) THEN FALSE
    ELSE IF cmds[i].type = "Set"
    THEN removes_absent(cmds, i + 1, present \cup {cmds[i].key})
    ELSE cmds[i].key \notin present
         \/ removes_absent(cmds, i + 1, present \ {cmds[i].key})

\* C21: open on a log that is a concatenation of well-formed Set and Remove
\* records succeeds, also when a Remove names a key that is absent at that
\* point; the index it builds is the one obtained by applying the records in
\* order, and its stale_bytes is the length of the log minus the lengths of
\* the indexed records.
C21_BuildIndexAppliesRecords ==
    lastOp.op = "open"
        => LET cmds == log_commands(Wal, 0)
           IN  /\ cmds \in CommandSeqs
               /\ write_all(cmds) = Wal
               /\ lastOp.result = Ok(None)
               /\ opened
               /\ index = applied(cmds, 1, 0, EmptyIndex)
               /\ stale_bytes = Len(Wal) - LiveBytes

\* open has run on a log with a Remove of an absent key, more stale bytes
\* than one Remove record, and a live Set: the Removes are counted, the live
\* record is indexed.
C21_Witness ==
    /\ lastOp.op = "open"
    /\ opened
    /\ removes_absent(log_commands(Wal, 0), 1, {})
    /\ index # EmptyIndex
    /\ stale_bytes > Len(to_writer(CmdRemove(KeyNames[1])))

\* C22: a get call, of a present or an absent key, leaves wal.log (contents
\* and length), wal.log.compact, the index, stale_bytes and the position of
\* the writer as they were, and runs no compaction; only the cursor of the
\* read handle may differ.
C22_GetChangesOnlyReader ==
    [][lastOp'.op = "get"
         => /\ wal_log' = wal_log
            /\ wal_log_compact' = wal_log_compact
            /\ index' = index
            /\ stale_bytes' = stale_bytes
            /\ writer' = writer
            /\ opened' = opened
            /\ ~lastOp'.compacted]_vars

\* A get has just read a record that is not the last of the log, with
\* stale bytes counted: the cursor of the reader is behind that record, the
\* writer at the end of the file.
C22_Witness ==
    /\ opened
    /\ lastOp.op = "get"
    /\ lastOp.key \in DOMAIN index
    /\ IsSome(lastOp.result.opt)
    /\ reader = index[lastOp.key].pos + index[lastOp.key].len
    /\ reader < writer
    /\ writer = Len(Wal)
    /\ stale_bytes > 0

\* C23: whenever the store is open and no call is running (after open, after
\* every set or remove that has returned), the data directory holds no file
\* wal.log.compact.
C23_NoCompactFileBetweenCalls ==
    opened => wal_log_compact = None

\* The steps of compact, and the steps of a method behind lock().
Compacting(t) == pc[t] \in {"copy", "rename", "replace"}
InMethod(t) == pc[t] \notin {"idle", "lock"}

\* Every index entry names a Set record of its key in wal.log.
IndexMatchesLog ==
    \A k \in DOMAIN index :
        LET cmd == from_reader(ReadAt(Wal, index[k].pos, index[k].len))
        IN  IsSome(cmd) /\ Unwrap(cmd).type = "Set" /\ Unwrap(cmd).key = k

\* C24: a compaction runs inside the set or remove call that started it,
\* with the mutex held by that call: while a thread is between the start of
\* the copy and the replacement of index and stale_bytes no other thread is
\* inside get, set or remove, and no step of another thread changes the
\* store; the new log with the old index exists only in that interval, so a
\* get that looks up or reads finds index and log matching and no get
\* returns an error.
C24_CompactionUnderMutex ==
    /\ [](\A t \in Threads :
            Compacting(t)
                => /\ mutex = t
                   /\ call[t].op \in {"set", "remove"}
                   /\ \A u \in Threads \ {t} : ~InMethod(u))
    /\ [](~IndexMatchesLog => \E t \in Threads : pc[t] = "replace" /\ mutex = t)
    /\ [](\A u \in Threads :
            /\ pc[u] \in {"lookup", "read"} => IndexMatchesLog
            /\ ret[u].call.op = "get" => ret[u].result.ok)
    /\ [][\A t \in Threads :
            (Compacting(t) /\ pc'[t] = pc[t])
                => UNCHANGED <<engineVars, mutex>>]_vars

\* A set is between the rename and the replacement of the index: wal.log is
\* the new file, the index still the old one, and a get of another thread
\* waits for the mutex.
C24_Witness ==
    \E t, u \in Threads :
        /\ t # u
        /\ pc[t] = "replace"
        /\ mutex = t
        /\ call[t].op = "set"
        /\ ~IndexMatchesLog
        /\ pc[u] = "lock"
        /\ call[u].op = "get"

\* In how many places job id is: messages of the channel, workers running
\* it, runs completed.
Places(id) ==
    Cardinality({i \in DOMAIN queue : queue[i].kind = "NewJob" /\ queue[i].id = id})
    + Cardinality({w \in Workers : worker[w] = "run" /\ job[w].id = id})
    + Cardinality({e \in executed : e.id = id})

\* C25: every job accepted by spawn is started exactly once, by one worker:
\* it is in exactly one place (queued, running on one worker, or run by one
\* worker), a worker starts only the job at the head of the channel, and
\* spawn never fails.  The Terminate messages of drop are queued behind the
\* jobs, so drop has returned only when no job is queued or running and all
\* were run, and a job still queued when drop has begun is eventually run.
C25_EveryJobRunsOnce ==
    /\ [](/\ \A id \in 1..spawned : Places(id) = 1
          /\ \A id \in (spawned + 1)..MaxJobs : Places(id) = 0
          /\ \A i, j \in DOMAIN queue :
                 (queue[i].kind = "Terminate" /\ queue[j].kind = "NewJob") => j < i
          /\ pool \in {"alive", "terminating", "joining", "dropped"}
          /\ pool = "dropped"
                 => \A id \in 1..spawned : ~Queued(id) /\ ~Running(id) /\ Executed(id))
    /\ [][\A w \in Workers :
            (worker[w] # "run" /\ worker'[w] = "run")
                => /\ queue # <<>>
                   /\ job'[w] = Head(queue)
                   /\ queue' = Tail(queue)
                   /\ \A u \in Workers \ {w} : worker'[u] = worker[u]]_vars
    /\ \A id \in 1..MaxJobs : (pool # "alive" /\ Queued(id)) ~> Executed(id)

\* drop has sent its Terminate messages while two jobs were still queued:
\* the jobs are ahead of every Terminate in the channel.
C25_Witness ==
    /\ pool = "joining"
    /\ Len(queue) = 2 + NumWorkers
    /\ queue[1].kind = "NewJob"
    /\ queue[2].kind = "NewJob"
    /\ \A i \in 3..Len(queue) : queue[i].kind = "Terminate"
    /\ \E id \in 1..spawned : Executed(id)

(***************************************************************************)
(* The server on its pool: KvsServer::run (server.rs:19-35) spawns one job *)
(* for each accepted stream on a SharedQueueThreadPool of ServerThreads     *)
(* workers; the job is handle_client on that stream.  A job is known by   *)
(* the number of its connection; handler[c] = "queued" from spawn until a *)
(* worker calls the closure.                                               *)
(***************************************************************************)
ServerWorkers == 1..ServerThreads

\* The store is open, the pool of the server is new, no stream accepted yet.
InitServerPool ==
    /\ \E log \in EarlierLogs :
         LET st == open(Some(log), None)
         IN  /\ wal_log = Some(st.wal)
             /\ index = st.index
             /\ stale_bytes = st.stale_bytes
             /\ writer = st.writer
             /\ reader = st.reader
    /\ wal_log_compact = None
    /\ opened = TRUE
    /\ InitHistory
    /\ InitThreads
    /\ InitConnections
    /\ queue = <<>>
    /\ worker = [w \in Workers |-> IF w \in ServerWorkers THEN "recv" ELSE "none"]
    /\ job = [w \in Workers |-> NoJob]
    /\ pool = "alive"
    /\ drop_i = 0
    /\ spawned = 0
    /\ executed = {}
    /\ taken = [w \in Workers |-> 0]
    /\ ServerStarted

\* server.rs:21-29: the accept loop takes the next stream, clones the engine
\* and spawns the closure that runs handle_client on the stream.
AcceptSpawn(c) ==
    /\ handler[c] = "pending"
    /\ \A d \in Connections : d < c => handler[d] # "pending"
    /\ handler' = [handler EXCEPT ![c] = "queued"]
    /\ queue' = send(queue, NewJob(c, FALSE))
    /\ spawned' = spawned + 1
    /\ UNCHANGED <<engineVars, to_server, shut, req_pos, req, resp, to_client, sent,
                   served, pipelined, nsent>>
    /\ UNCHANGED <<worker, job, pool, drop_i, executed, taken>>
    /\ UNCHANGED <<histVars, crashes, concVars, clientVars, bootVars>>

\* shared_queue.rs:36 with server.rs:25-26: worker w calls the closure it
\* received, handle_client starts on the stream.
HandlerStarts(w) ==
    /\ worker[w] = "run"
    /\ handler[job[w].id] = "queued"
    /\ handler' = [handler EXCEPT ![job[w].id] = "decode"]
    /\ UNCHANGED <<engineVars, to_server, shut, req_pos, req, resp, to_client, sent,
                   served, pipelined, nsent>>
    /\ ServerFrame

\* Fault: the closure hands the stream to a thread of its own and returns.
handle_client_detached(h) == TRUE

\* The closure returns when handle_client has returned (server.rs:26-28).
handle_client_returned(h) == h = "returned"

\* shared_queue.rs:36-37: the closure has returned, worker w goes back to
\* receiver.recv().
HandlerReturns(w) ==
    /\ worker[w] = "run"
    /\ handle_client_returned(handler[job[w].id])
    /\ RunJob(w)

\* What the clients ask here: the key the earlier log set.
PoolRequests == {ReqGet(KeyNames[1])}

NextServerPool ==
    \/ \E c \in Connections :
          \/ \E r \in PoolRequests : ClientWrite(c, r)
          \/ ClientWriteGarbage(c)
          \/ ClientClose(c)
          \/ AcceptSpawn(c)
          \/ NextRequest(c)
          \/ Execute(c)
          \/ Respond(c)
    \/ \E w \in ServerWorkers :
          \/ Recv(w)
          \/ HandlerStarts(w)
          \/ HandlerReturns(w)

SpecServerPool == InitServerPool /\ [][NextServerPool]_vars

\* The worker threads keep running: a worker that can take a message, call
\* the closure or go back to recv does so.  Nothing obliges a client to write
\* or to close, and a handler blocked in its read stays there.
SpecServerPoolLive ==
    /\ SpecServerPool
    /\ \A w \in ServerWorkers :
          WF_vars(Recv(w) \/ HandlerStarts(w) \/ HandlerReturns(w))

\* handle_client runs on connection c; worker w is occupied by connection c.
Serving(c) == handler[c] \in {"decode", "execute", "respond"}
Occupies(c, w) == worker[w] = "run" /\ job[w].id = c

\* C26: with a pool of ServerThreads workers at most ServerThreads
\* connections are served at a time, each on one worker, which stays with
\* the connection until handle_client has returned at the end of the stream
\* or at bytes that do not decode.  A connection accepted meanwhile is
\* queued: nothing of it is read, executed or answered, and it leaves the
\* queue only to a worker that was at recv.  It does not stay queued once a
\* connection has ended: again and again, for good in the end, a connection
\* is queued only while every worker is serving another one.
C26_ConnectionPerWorker ==
    /\ [](/\ Cardinality({c \in Connections : Serving(c)}) <= ServerThreads
          /\ \A c \in Connections :
                 Serving(c) => Cardinality({w \in ServerWorkers : Occupies(c, w)}) = 1
          /\ \A c \in Connections :
                 handler[c] \in {"pending", "queued"}
                     => /\ req_pos[c] = 0
                        /\ served[c] = <<>>
                        /\ to_client[c] = <<>>
          /\ \A c \in Connections :
                 handler[c] = "returned"
                     => \/ shut[c] /\ req_pos[c] = Len(to_server[c])
                        \/ decode_request(to_server[c], req_pos[c]).kind = "err")
    /\ [][\A w \in ServerWorkers :
            /\ (worker[w] = "run" /\ (worker'[w] # "run" \/ job'[w] # job[w]))
                  => handler[job[w].id] = "returned"
            /\ (worker[w] # "run" /\ worker'[w] = "run")
                  => /\ worker[w] = "recv"
                     /\ handler[job'[w].id] = "queued"
                     /\ job'[w] = Head(queue)]_vars
    /\ []<>(\A c \in Connections :
              handler[c] = "queued"
                  => \A w \in ServerWorkers : worker[w] = "run" /\ Serving(job[w].id))

\* Every worker is occupied by a connection that was answered and is still
\* open; a further connection wrote a request and is queued, unanswered.
C26_Witness ==
    /\ \A w \in ServerWorkers :
          /\ worker[w] = "run"
          /\ handler[job[w].id] = "decode"
          /\ ~shut[job[w].id]
          /\ to_client[job[w].id] # <<>>
    /\ \E c \in Connections :
          /\ handler[c] = "queued"
          /\ Queued(c)
          /\ to_server[c] # <<>>
          /\ to_client[c] = <<>>

(***************************************************************************)
(* The pool from its construction: SharedQueueThreadPool::new(size) for    *)
(* every size up to NumWorkers, 0 included.                                *)
(***************************************************************************)
\* A new directory, nothing opened, no pool constructed yet.
InitNoPool ==
    /\ wal_log = None
    /\ wal_log_compact = None
    /\ opened = FALSE
    /\ index = EmptyIndex
    /\ stale_bytes = 0
    /\ writer = 0
    /\ reader = 0
    /\ InitHistory
    /\ InitThreads
    /\ InitConnections
    /\ queue = <<>>
    /\ worker = [w \in Workers |-> "none"]
    /\ job = [w \in Workers |-> NoJob]
    /\ pool = "none"
    /\ drop_i = 0
    /\ spawned = 0
    /\ executed = {}
    /\ taken = [w \in Workers |-> 0]
    /\ NoServer

\* shared_queue.rs:56-66, new(size): the channel is created, `size` workers
\* are started, each with a clone of the receiver, and the receiver of new
\* itself is dropped when new returns.  new returns Ok for every size.
NewPoolOf(size) ==
    /\ pool = "none"
    /\ pool' = "alive"
    /\ worker' = [w \in Workers |-> IF w <= size THEN "recv" ELSE "none"]
    /\ UNCHANGED <<queue, job, drop_i, spawned, executed, taken>>
    /\ PoolFrame

\* shared_queue.rs:84-94, drop of a pool without workers: both loops are
\* empty.
DropEmpty ==
    /\ pool = "alive"
    /\ PoolSize = 0
    /\ pool' = "dropped"
    /\ UNCHANGED <<queue, worker, job, drop_i, spawned, executed, taken>>
    /\ PoolFrame

NextPoolNew ==
    \/ \E size \in 0..NumWorkers : NewPoolOf(size)
    \/ \E panics \in BOOLEAN : Spawn(panics)
    \/ \E w \in Workers : Recv(w)
    \/ \E w \in Workers : RunJob(w)
    \/ DropSend
    \/ DropJoin
    \/ DropEmpty

SpecPoolNew == InitNoPool /\ [][NextPoolNew]_vars

\* C27: on a pool that new has returned, of any size from 0 on, spawn does
\* not panic and queues its job: the pool is never left by a panic, and
\* while the pool is alive every job spawned is queued, running or run.
C27_SpawnNeverPanics ==
    /\ pool # "panicked"
    /\ pool = "alive" => \A id \in 1..spawned : Places(id) = 1

=============================================================================
